---- MODULE Spec2Model ----
(***************************************************************************)
(* Model of the refactoring service:                                       *)
(*   - the task server (src/agent/server): the task registry, the          *)
(*     background executor execute_agent / execute_chat, the stop and      *)
(*     resume handlers and the SSE log stream;                             *)
(*   - the project orchestrator (src/backend/app/services/                 *)
(*     project_service.py) driving the container runtime.                  *)
(*                                                                         *)
(* Scheduling.  The handlers of the task server are coroutines without     *)
(* await on one event loop: they never interleave with one another, only   *)
(* at the suspension points of the stream generator (yield, sleep).  The   *)
(* executor is a synchronous background task, so it runs on a pool thread  *)
(* and interleaves with the handlers between any two statements.  The      *)
(* variable `loop` says which coroutine holds the event loop.              *)
(***************************************************************************)
EXTENDS Integers, Sequences, FiniteSets, TLC

\* ------------------------------------------------------------------ bounds
MaxTasks == 2
MaxEvents == 1
MaxChunks == 1
EventsPerChunk == 2
MaxStreams == 1
MaxStreamTasks == 1
MaxStopRequests == 1
MaxWorkers == 1
MaxCalls == 2
MaxContainers == 2
MaxRuns == 2
MaxUuids == 2
PoolWorkers == 2

\* ------------------------------------------------------------- task server
VARIABLES
    tasks,            \* state.tasks: task_id -> record
    task_logs,        \* state.task_logs: task_id -> list of entries
    stop_flags,       \* state.stop_flags: task_id -> bool
    refactor_agents,  \* state.refactor_agents: thread_id -> agent object
    chat_agents,      \* state.chat_agents: thread_id -> agent object
    agent_objs,       \* the RefactorAgent objects: id -> task its stop_check reads
    postgres_url,     \* whether POSTGRES_URL is set in the environment
    epc,              \* executor position, per task
    eagent,           \* executor local `agent`, per task
    nevents,          \* events the agent run of a task has delivered
    nchunks,          \* chunks the agent run of a task has consumed
    log_obj,          \* which list object state.task_logs[task_id] is
    old_logs,         \* the list object that execute_* replaced, per task
    appended,         \* history: every entry ever appended under a task_id
    stopreq,          \* the stop_task call in progress
    nstops,           \* stop requests received so far
    stop_accepted,    \* history: tasks a stop request was accepted for
    stop_pending,     \* history: tasks whose stop request returned while PENDING
    streams,          \* the open event_generator of each stream
    loop,             \* the coroutine holding the event loop
    response          \* the last HTTP response of the task server

taskVars == <<tasks, task_logs, stop_flags, refactor_agents, chat_agents,
              agent_objs, postgres_url, epc, eagent, nevents, nchunks, log_obj,
              old_logs, appended, stopreq, nstops, stop_accepted, stop_pending,
              streams, loop, response>>

\* ------------------------------------------------------ project orchestrator
VARIABLES
    projects,         \* db.projects: project_id -> record
    containers,       \* the runtime: container id -> state of the container
    next_container,   \* the id the runtime gives the next container
    calls,            \* the requests in progress, per connection
    returned,         \* history: the request that completed last, its outcome,
                      \* until the next request is under way
    docker_status     \* history: the docker_status field of what it returned

\* ------------------------------------------------- project agent endpoints
VARIABLES
    refactor_thread_id,  \* the project's refactor_thread_id, 0 when None
    next_uuid,           \* the number of the identifier uuid4 gives next
    runs,                \* the agent requests in progress, per connection
    session_threads      \* history: the thread_ids that the runs begun since
                         \* the last reset have submitted

sessVars == <<refactor_thread_id, next_uuid, runs, session_threads>>

\* ------------------------------------------------------- stream forwarding
VARIABLES
    upstream,   \* the lines the task server's response yields, in order
    received,   \* how many of them response.aiter_lines() has yielded
    emitted,    \* the text event_generator has yielded
    relay_pc    \* where event_generator is

relayVars == <<upstream, received, emitted, relay_pc>>

\* ------------------------------------------------------- container service
VARIABLES
    svc_call,   \* the ContainerService call in progress and its arguments
    commands,   \* the command lines given to subprocess.run, in order
    svc_raised  \* what the call raised or returned

svcVars == <<svc_call, commands, svc_raised>>

\* ---------------------------------------------------------- chat sessions
VARIABLES
    chat_sessions  \* db.chat_sessions: the thread_ids that have a session

ioVars == <<relayVars, svcVars, chat_sessions>>

projVars ==
    <<projects, containers, next_container, calls, returned, docker_status, sessVars, ioVars>>

vars == <<taskVars, projVars>>

\* ------------------------------------------------------------ dictionaries
EmptyDict == [k \in {} |-> 0]

Put(d, k, v) == [x \in (DOMAIN d) \cup {k} |-> IF x = k THEN v ELSE d[x]]

Del(d, k) == [x \in (DOMAIN d) \ {k} |-> d[x]]

Get(d, k, default) == IF k \in DOMAIN d THEN d[k] ELSE default

\* ------------------------------------------------------------- task status
PENDING == "pending"
RUNNING == "running"
SUCCESS == "success"
FAILED == "failed"
STOPPED == "stopped"

finished_statuses == {SUCCESS, FAILED, STOPPED}

None == "None"

TaskIds == 1 .. MaxTasks

ReqThread == [src |-> "request", n |-> 1]

DefaultThread(task_id) == [src |-> "refactor", n |-> task_id]

\* The record run_agent, chat and resume_task store; a chat task has a
\* "message" and no "spec" key (None here); resumed_from is 0 when absent.
NewTask(task_id, thread_id, kind, spec, resumed_from) ==
    [task_id |-> task_id, thread_id |-> thread_id, status |-> PENDING,
     kind |-> kind, spec |-> spec, started_at |-> None, finished_at |-> None,
     error_message |-> None, resumed_from |-> resumed_from]

\* ---------------------------------------------------------------- log_task
\* An entry is {timestamp, message}; the timestamp is the entry's number in
\* the history of the task, the message its kind ("log" or a structured
\* "[event_type] json" line) and text.
Entry(t, kind, text) ==
    [timestamp |-> Len(appended[t]) + 1, kind |-> kind, text |-> text]

LogAppend(t, kind, text) ==
    /\ task_logs' = Put(task_logs, t, Append(Get(task_logs, t, <<>>), Entry(t, kind, text)))
    /\ appended' = [appended EXCEPT ![t] = Append(@,
            [entry |-> Entry(t, kind, text),
             nonterminal |-> (t \in DOMAIN tasks => tasks[t].status \notin finished_statuses)])]

log_task(t, text) == LogAppend(t, "log", text)

\* ------------------------------------------------- execute_agent / execute_chat
\* The executor's position names the statement it executes next.  Line
\* numbers are those of execute_agent in handlers.py; execute_chat
\* (handlers.py 162-272) is the same statement list on state.chat_agents,
\* without the second stop check.

\* Statements that only call log_task: position -> text and next position.
LogStmts(kind) ==
    [log_start          |-> [text |-> "start", next |-> "check_stop_1"],
     stop1_log          |-> [text |-> "stopped before init", next |-> "stop1_status"],
     env_log            |-> [text |-> "error: POSTGRES_URL", next |-> "env_status"],
     log_pg             |-> [text |-> "postgres", next |-> "lookup_agent"],
     new_log_llm        |-> [text |-> "init LLM", next |-> "create_model"],
     new_log_llm_done   |-> [text |-> "LLM ready",
                             next |-> IF kind = "run" THEN "check_stop_2"
                                                      ELSE "new_log_agent"],
     stop2_log          |-> [text |-> "stopped after LLM init", next |-> "stop2_status"],
     new_log_agent      |-> [text |-> "create agent", next |-> "create_agent"],
     new_log_agent_done |-> [text |-> "agent created", next |-> "get_agent"],
     reuse_log          |-> [text |-> "reuse agent", next |-> "rebind"],
     log_run            |-> [text |-> "run agent", next |-> "run_chunk"],
     cb_stop_log        |-> [text |-> "stop signal detected", next |-> "ki_log"],
     ar_stop_log        |-> [text |-> "run stopped", next |-> "finally"],
     ar_ok_log          |-> [text |-> "run complete", next |-> "finally"],
     ki_log             |-> [text |-> "stopped by user", next |-> "ki_status"],
     exc_log            |-> [text |-> "error", next |-> "exc_log_tb"],
     exc_log_tb         |-> [text |-> "Traceback", next |-> "exc_status"]]

\* Statements that assign one field of state.tasks[task_id].
SetStmts(kind) ==
    [stop1_status     |-> [field |-> "status", value |-> STOPPED, next |-> "stop1_finished"],
     stop1_finished   |-> [field |-> "finished_at", value |-> "now", next |-> "finally"],
     env_status       |-> [field |-> "status", value |-> FAILED, next |-> "env_error"],
     env_error        |-> [field |-> "error_message", value |-> "POSTGRES_URL is not set",
                           next |-> "env_finished"],
     env_finished     |-> [field |-> "finished_at", value |-> "now", next |-> "finally"],
     stop2_status     |-> [field |-> "status", value |-> STOPPED, next |-> "stop2_finished"],
     stop2_finished   |-> [field |-> "finished_at", value |-> "now", next |-> "finally"],
     ar_stop_status   |-> [field |-> "status", value |-> STOPPED, next |-> "ar_stop_finished"],
     ar_stop_finished |-> [field |-> "finished_at", value |-> "now", next |-> "ar_stop_log"],
     ar_ok_status     |-> [field |-> "status", value |-> SUCCESS, next |-> "ar_ok_finished"],
     ar_ok_finished   |-> [field |-> "finished_at", value |-> "now", next |-> "ar_ok_log"],
     ki_status        |-> [field |-> "status", value |-> STOPPED, next |-> "ki_error"],
     ki_error         |-> [field |-> "error_message",
                           value |-> IF kind = "run" THEN "Task stopped by user"
                                                     ELSE "Chat stopped by user",
                           next |-> "ki_finished"],
     ki_finished      |-> [field |-> "finished_at", value |-> "now", next |-> "finally"],
     exc_status       |-> [field |-> "status", value |-> FAILED, next |-> "exc_error"],
     exc_error        |-> [field |-> "error_message", value |-> "execution failed",
                           next |-> "exc_finished"],
     exc_finished     |-> [field |-> "finished_at", value |-> "now", next |-> "finally"]]

Kind(t) == tasks[t].kind

Agents(kind) == IF kind = "run" THEN refactor_agents ELSE chat_agents

Goto(t, pc) == epc' = [epc EXCEPT ![t] = pc]

\* What an executor step leaves alone, by group.
handlerVars == <<stopreq, nstops, stop_accepted, stop_pending, streams, loop, response, projVars>>

agentVars == <<refactor_agents, chat_agents, agent_objs, eagent>>

runVars == <<nevents, nchunks>>

logVars == <<task_logs, appended>>

\* The background tasks run on the threads of a pool: a scheduled task
\* starts when a thread is free.
Running == {t \in DOMAIN tasks : epc[t] \notin {"none", "init_logs", "done"}}

\* handlers.py 36: state.task_logs[task_id] = []  (a new list object)
ExecInitLogs(t) ==
    /\ epc[t] = "init_logs"
    /\ Cardinality(Running) < MaxWorkers
    /\ task_logs' = Put(task_logs, t, <<>>)
    /\ old_logs' = [old_logs EXCEPT ![t] = Get(task_logs, t, <<>>)]
    /\ log_obj' = [log_obj EXCEPT ![t] = 1]
    /\ Goto(t, "init_flag")
    /\ UNCHANGED <<tasks, stop_flags, appended, postgres_url, agentVars, runVars, handlerVars, projVars>>

\* handlers.py 37: state.stop_flags[task_id] = False
ExecInitFlag(t) ==
    /\ epc[t] = "init_flag"
    /\ stop_flags' = Put(stop_flags, t, FALSE)
    /\ Goto(t, "set_running")
    /\ UNCHANGED <<tasks, logVars, log_obj, old_logs, postgres_url, agentVars, runVars, handlerVars, projVars>>

\* handlers.py 40-41: status = RUNNING, started_at = now
ExecSetRunning(t) ==
    /\ epc[t] = "set_running"
    /\ tasks' = [tasks EXCEPT ![t].status = RUNNING, ![t].started_at = "now"]
    /\ Goto(t, "log_start")
    /\ UNCHANGED <<stop_flags, logVars, log_obj, old_logs, postgres_url, agentVars, runVars, handlerVars, projVars>>

\* Any log_task statement of the executor.
ExecLog(t) ==
    /\ epc[t] \in DOMAIN LogStmts(Kind(t))
    /\ log_task(t, LogStmts(Kind(t))[epc[t]].text)
    /\ Goto(t, LogStmts(Kind(t))[epc[t]].next)
    /\ UNCHANGED <<tasks, stop_flags, log_obj, old_logs, postgres_url, agentVars, runVars, handlerVars, projVars>>

\* An assignment that writes the field into the record of every task.
ExecSet_EveryTask(t) ==
    /\ epc[t] \in DOMAIN SetStmts(Kind(t))
    /\ LET st == SetStmts(Kind(t))[epc[t]] IN
        /\ tasks' = [u \in DOMAIN tasks |-> [tasks[u] EXCEPT ![st.field] = st.value]]
        /\ Goto(t, st.next)
    /\ UNCHANGED <<stop_flags, logVars, log_obj, old_logs, postgres_url, agentVars, runVars, handlerVars, projVars>>

\* Any assignment to a field of the task record.
ExecSet(t) ==
    /\ epc[t] \in DOMAIN SetStmts(Kind(t))
    /\ LET st == SetStmts(Kind(t))[epc[t]] IN
        /\ tasks' = [tasks EXCEPT ![t] = [@ EXCEPT ![st.field] = st.value]]
        /\ Goto(t, st.next)
    /\ UNCHANGED <<stop_flags, logVars, log_obj, old_logs, postgres_url, agentVars, runVars, handlerVars, projVars>>

\* Stop checks in which handle_chunk_event logs the event whatever the flag.
StopCheckTarget_CallbackBlind(pc, flag) ==
    CASE pc = "check_stop_1" -> IF flag THEN "stop1_log" ELSE "check_env"
      [] pc = "check_stop_2" -> IF flag THEN "stop2_log" ELSE "new_log_agent"
      [] pc = "cb_check"     -> "cb_log"
      [] pc = "after_run"    -> IF flag THEN "ar_stop_status" ELSE "ar_ok_status"

\* handlers.py 48, 76, 112, 131: if state.stop_flags.get(task_id, False)
StopCheckTarget(pc, flag) ==
    CASE pc = "check_stop_1" -> IF flag THEN "stop1_log" ELSE "check_env"
      [] pc = "check_stop_2" -> IF flag THEN "stop2_log" ELSE "new_log_agent"
      [] pc = "cb_check"     -> IF flag THEN "cb_stop_log" ELSE "cb_log"
      [] pc = "after_run"    -> IF flag THEN "ar_stop_status" ELSE "ar_ok_status"

ExecCheckStop(t) ==
    /\ epc[t] \in {"check_stop_1", "check_stop_2", "cb_check", "after_run"}
    /\ Goto(t, StopCheckTarget(epc[t], Get(stop_flags, t, FALSE)))
    /\ UNCHANGED <<tasks, stop_flags, logVars, log_obj, old_logs, postgres_url, agentVars, runVars, handlerVars, projVars>>

\* handlers.py 55-56: postgres_url = os.environ.get("POSTGRES_URL")
ExecCheckEnv(t) ==
    /\ epc[t] = "check_env"
    /\ Goto(t, IF postgres_url THEN "log_pg" ELSE "env_log")
    /\ UNCHANGED <<tasks, stop_flags, logVars, log_obj, old_logs, postgres_url, agentVars, runVars, handlerVars, projVars>>

\* handlers.py 67: if thread_id not in state.refactor_agents
ExecLookupAgent(t) ==
    /\ epc[t] = "lookup_agent"
    /\ Goto(t, IF tasks[t].thread_id \notin DOMAIN Agents(Kind(t))
                THEN "new_log_llm" ELSE "reuse_log")
    /\ UNCHANGED <<tasks, stop_flags, logVars, log_obj, old_logs, postgres_url, agentVars, runVars, handlerVars, projVars>>

\* handlers.py 70-71: ModelFactory().create_model(model); it may raise
ExecCreateModel(t) ==
    /\ epc[t] = "create_model"
    /\ \/ Goto(t, "new_log_llm_done")
       \/ Goto(t, "exc_log")
    /\ UNCHANGED <<tasks, stop_flags, logVars, log_obj, old_logs, postgres_url, agentVars, runVars, handlerVars, projVars>>

SetAgent(kind, thread_id, a) ==
    IF kind = "run"
    THEN /\ refactor_agents' = Put(refactor_agents, thread_id, a)
         /\ UNCHANGED chat_agents
    ELSE /\ chat_agents' = Put(chat_agents, thread_id, a)
         /\ UNCHANGED refactor_agents

\* handlers.py 88-96: state.refactor_agents[thread_id] = RefactorAgent(...,
\* stop_check_callback=stop_check); the constructor may raise
ExecCreateAgent(t) ==
    /\ epc[t] = "create_agent"
    /\ \/ /\ agent_objs' = Put(agent_objs, t, t)
          /\ SetAgent(Kind(t), tasks[t].thread_id, t)
          /\ Goto(t, "new_log_agent_done")
       \/ /\ Goto(t, "exc_log")
          /\ UNCHANGED <<refactor_agents, chat_agents, agent_objs>>
    /\ UNCHANGED <<tasks, stop_flags, logVars, log_obj, old_logs, postgres_url, eagent, runVars, handlerVars, projVars>>

\* handlers.py 103-105: state.refactor_agents[thread_id].stop_check_callback = ...
ExecRebind(t) ==
    /\ epc[t] = "rebind"
    /\ agent_objs' = [agent_objs EXCEPT ![Agents(Kind(t))[tasks[t].thread_id]] = t]
    /\ Goto(t, "get_agent")
    /\ UNCHANGED <<tasks, stop_flags, logVars, log_obj, old_logs, postgres_url,
                   refactor_agents, chat_agents, eagent, runVars, handlerVars, projVars>>

\* handlers.py 107: agent = state.refactor_agents[thread_id]
ExecGetAgent(t) ==
    /\ epc[t] = "get_agent"
    /\ eagent' = [eagent EXCEPT ![t] = Agents(Kind(t))[tasks[t].thread_id]]
    /\ Goto(t, "log_run")
    /\ UNCHANGED <<tasks, stop_flags, logVars, log_obj, old_logs, postgres_url,
                   refactor_agents, chat_agents, agent_objs, runVars, handlerVars, projVars>>

\* deep_agent.py 335: for chunk in result -- the next chunk, the end of the
\* stream, or an exception of the model call
AgentRunChunk(t) ==
    /\ epc[t] = "run_chunk"
    /\ \/ /\ nchunks[t] < MaxChunks
          /\ nchunks' = [nchunks EXCEPT ![t] = @ + 1]
          /\ Goto(t, "run_stop_check")
       \/ /\ Goto(t, "after_run")
          /\ UNCHANGED nchunks
       \/ /\ Goto(t, "exc_log")
          /\ UNCHANGED nchunks
    /\ UNCHANGED <<tasks, stop_flags, logVars, log_obj, old_logs, postgres_url, agentVars, nevents, handlerVars, projVars>>

\* deep_agent.py 337-341: if self.stop_check_callback and self.stop_check_callback()
AgentRunStopCheck(t) ==
    /\ epc[t] = "run_stop_check"
    /\ Goto(t, IF Get(stop_flags, agent_objs[eagent[t]], FALSE) THEN "ki_log" ELSE "parse")
    /\ UNCHANGED <<tasks, stop_flags, logVars, log_obj, old_logs, postgres_url, agentVars, runVars, handlerVars, projVars>>

\* deep_agent.py 343: parser.parse(chunk) -- it calls event_callback for each
\* event of the chunk, then returns
AgentParse(t) ==
    /\ epc[t] = "parse"
    /\ \/ /\ nevents[t] < MaxEvents
          /\ nevents' = [nevents EXCEPT ![t] = @ + 1]
          /\ Goto(t, "cb_check")
       \/ /\ Goto(t, "run_chunk")
          /\ UNCHANGED nevents
    /\ UNCHANGED <<tasks, stop_flags, logVars, log_obj, old_logs, postgres_url, agentVars, nchunks, handlerVars, projVars>>

\* handlers.py 116-118: log_task(task_id, f"[{event_type}] {json_str}")
ExecCallbackLog(t) ==
    /\ epc[t] = "cb_log"
    /\ LogAppend(t, "event", "ai_content")
    /\ Goto(t, "parse")
    /\ UNCHANGED <<tasks, stop_flags, log_obj, old_logs, postgres_url, agentVars, runVars, handlerVars, projVars>>

\* handlers.py 157-159: finally: if task_id in state.stop_flags: del ...
ExecFinally(t) ==
    /\ epc[t] = "finally"
    /\ stop_flags' = Del(stop_flags, t)
    /\ Goto(t, "done")
    /\ UNCHANGED <<tasks, logVars, log_obj, old_logs, postgres_url, agentVars, runVars, handlerVars, projVars>>

execute(t) ==
    /\ t \in DOMAIN tasks
    /\ \/ ExecInitLogs(t)
       \/ ExecInitFlag(t)
       \/ ExecSetRunning(t)
       \/ ExecLog(t)
       \/ ExecSet(t)
       \/ ExecCheckStop(t)
       \/ ExecCheckEnv(t)
       \/ ExecLookupAgent(t)
       \/ ExecCreateModel(t)
       \/ ExecCreateAgent(t)
       \/ ExecRebind(t)
       \/ ExecGetAgent(t)
       \/ AgentRunChunk(t)
       \/ AgentRunStopCheck(t)
       \/ AgentParse(t)
       \/ ExecCallbackLog(t)
       \/ ExecFinally(t)

\* ---------------------------------------------------------------- handlers
NextTaskId == Cardinality(DOMAIN tasks) + 1

StreamIds == 1 .. MaxStreams

Idle == [pc |-> "idle", task_id |-> 0]

\* Who holds the event loop: nobody, the stop_task call, or a generator.
Free == <<"free", 0>>

StopHandler == <<"stop_task", 0>>

Respond(op, t, code) == response' = [op |-> op, task_id |-> t, code |-> code]

Schedule(t) == epc' = [epc EXCEPT ![t] = "init_logs"]

executorVars == <<epc, eagent, nevents, nchunks>>

registryVars == <<refactor_agents, chat_agents, agent_objs, postgres_url>>

\* app.py 89-126: POST /run
run_agent(has_thread_id) ==
    /\ loop = Free
    /\ NextTaskId <= MaxTasks
    /\ LET task_id == NextTaskId
           thread_id == IF has_thread_id THEN ReqThread ELSE DefaultThread(task_id)
       IN /\ tasks' = Put(tasks, task_id, NewTask(task_id, thread_id, "run", "spec", 0))
          /\ Schedule(task_id)
          /\ Respond("run", task_id, 200)
    /\ UNCHANGED <<task_logs, appended, stop_flags, registryVars, eagent, nevents, nchunks,
                   log_obj, old_logs, stopreq, nstops, stop_accepted, stop_pending,
                   streams, loop, projVars>>

\* app.py 47-84: POST /chat
chat ==
    /\ loop = Free
    /\ NextTaskId <= MaxTasks
    /\ LET task_id == NextTaskId
       IN /\ tasks' = Put(tasks, task_id, NewTask(task_id, ReqThread, "chat", None, 0))
          /\ Schedule(task_id)
          /\ Respond("chat", task_id, 200)
    /\ UNCHANGED <<task_logs, appended, stop_flags, registryVars, eagent, nevents, nchunks,
                   log_obj, old_logs, stopreq, nstops, stop_accepted, stop_pending,
                   streams, loop, projVars>>

\* A status check that lets the stop of a finished task through.
StopTaskCheck_AcceptsFinished(t) ==
    /\ loop = Free
    /\ nstops < MaxStopRequests
    /\ nstops' = nstops + 1
    /\ \/ /\ t \notin DOMAIN tasks
          /\ Respond("stop", t, 404)
          /\ UNCHANGED <<stopreq, loop, stop_accepted>>
       \/ /\ t \in DOMAIN tasks
          /\ stopreq' = [pc |-> "set_flag", task_id |-> t]
          /\ loop' = StopHandler
          /\ stop_accepted' = stop_accepted \cup {t}
          /\ UNCHANGED response
    /\ UNCHANGED <<tasks, task_logs, appended, stop_flags, registryVars, executorVars,
                   log_obj, old_logs, stop_pending, streams, projVars>>

\* app.py 228-241: POST /tasks/{task_id}/stop, up to the status check
StopTaskCheck(t) ==
    /\ loop = Free
    /\ nstops < MaxStopRequests
    /\ nstops' = nstops + 1
    /\ \/ /\ t \notin DOMAIN tasks
          /\ Respond("stop", t, 404)
          /\ UNCHANGED <<stopreq, loop, stop_accepted>>
       \/ /\ t \in DOMAIN tasks
          /\ tasks[t].status \notin {PENDING, RUNNING}
          /\ Respond("stop", t, 400)
          /\ UNCHANGED <<stopreq, loop, stop_accepted>>
       \/ /\ t \in DOMAIN tasks
          /\ tasks[t].status \in {PENDING, RUNNING}
          /\ stopreq' = [pc |-> "set_flag", task_id |-> t]
          /\ loop' = StopHandler
          /\ stop_accepted' = stop_accepted \cup {t}
          /\ UNCHANGED response
    /\ UNCHANGED <<tasks, task_logs, appended, stop_flags, registryVars, executorVars,
                   log_obj, old_logs, stop_pending, streams, projVars>>

\* A stop handler that also marks the task STOPPED itself.
StopTaskSetFlag_SetsStatus ==
    /\ stopreq.pc = "set_flag"
    /\ stop_flags' = Put(stop_flags, stopreq.task_id, TRUE)
    /\ tasks' = [tasks EXCEPT ![stopreq.task_id].status = STOPPED]
    /\ stopreq' = [stopreq EXCEPT !.pc = "log"]
    /\ UNCHANGED <<task_logs, appended, registryVars, executorVars, log_obj, old_logs,
                   nstops, stop_accepted, stop_pending, streams, loop, response, projVars>>

\* app.py 244: state.stop_flags[task_id] = True
StopTaskSetFlag ==
    /\ stopreq.pc = "set_flag"
    /\ stop_flags' = Put(stop_flags, stopreq.task_id, TRUE)
    /\ stopreq' = [stopreq EXCEPT !.pc = "log"]
    /\ UNCHANGED <<tasks, task_logs, appended, registryVars, executorVars, log_obj, old_logs,
                   nstops, stop_accepted, stop_pending, streams, loop, response, projVars>>

\* app.py 246-253: log_task(...) and the "stopping" response
StopTaskLog ==
    /\ stopreq.pc = "log"
    /\ log_task(stopreq.task_id, "stop signal received")
    /\ Respond("stop", stopreq.task_id, 200)
    /\ stop_pending' = IF tasks[stopreq.task_id].status = PENDING
                        THEN stop_pending \cup {stopreq.task_id} ELSE stop_pending
    /\ stopreq' = Idle
    /\ loop' = Free
    /\ UNCHANGED <<tasks, stop_flags, registryVars, executorVars, log_obj, old_logs,
                   nstops, stop_accepted, streams, projVars>>

\* app.py 256-307: POST /tasks/{task_id}/resume
resume_task(t) ==
    /\ loop = Free
    /\ \/ /\ t \notin DOMAIN tasks
          /\ Respond("resume", t, 404)
          /\ UNCHANGED <<tasks, task_logs, appended, epc>>
       \/ /\ t \in DOMAIN tasks
          /\ tasks[t].status \notin {STOPPED, FAILED}
          /\ Respond("resume", t, 400)
          /\ UNCHANGED <<tasks, task_logs, appended, epc>>
       \/ /\ t \in DOMAIN tasks
          /\ tasks[t].status \in {STOPPED, FAILED}
          /\ NextTaskId <= MaxTasks
          /\ LET new_task_id == NextTaskId
                 spec == IF tasks[t].spec = None THEN "" ELSE tasks[t].spec
             IN /\ tasks' = Put(tasks, new_task_id,
                                NewTask(new_task_id, tasks[t].thread_id, "run", spec, t))
                /\ Schedule(new_task_id)
                /\ log_task(new_task_id, "resumed")
                /\ Respond("resume", new_task_id, 200)
    /\ UNCHANGED <<stop_flags, registryVars, eagent, nevents, nchunks, log_obj, old_logs,
                   stopreq, nstops, stop_accepted, stop_pending, streams, loop, projVars>>

\* ------------------------------------- stream_task_logs / event_generator
\* What a generator has sent is kept as a summary of its output: the entry
\* its last log/structured event was made from (last_src), whether it has
\* passed over an entry without sending it (missed), whether it has passed
\* over an entry of the list the executor created (missed_kept), whether
\* an event was ever made from an entry at or before the one sent before it
\* (disorder), the type of its last event, the number of status events and
\* the content of the status event.
NoStatusEvent == [status |-> None, finished_at |-> None, error_message |-> None]

Closed == [pc |-> "closed", task_id |-> 0, last_index |-> 0, new_logs |-> <<>>,
           current_logs |-> 0, last_src |-> 0, missed |-> FALSE, missed_kept |-> FALSE,
           disorder |-> FALSE,
           last_event |-> None, nstatus |-> 0, status_event |-> NoStatusEvent]

\* app.py 178-202: a "[event_type] json" message becomes an event of that
\* type, any other message a "log" event carrying {timestamp, message}.
SseEventType(log) == IF log.kind = "event" THEN log.text ELSE "log"

\* The generator state after yielding the event made from entry `log` of
\* task t.  The entries of the list the executor created are those numbered
\* above Len(old_logs[t]).
Yield(st, t, log) ==
    [st EXCEPT !.last_src = log.timestamp,
               !.missed = @ \/ log.timestamp > st.last_src + 1,
               !.missed_kept = @ \/ (/\ log.timestamp > st.last_src + 1
                                     /\ log_obj[t] = 1
                                     /\ log.timestamp - 1 > Len(old_logs[t])),
               !.disorder = @ \/ log.timestamp <= st.last_src,
               !.last_event = SseEventType(log)]

\* app.py 213-220: the final status event {status, finished_at, error_message}
StatusEvent(task) ==
    [status |-> task.status, finished_at |-> task.finished_at,
     error_message |-> task.error_message]

\* The list object the generator holds in current_logs: the one in the
\* registry, or the one the executor has replaced since.
ListObject(t, obj) == IF obj = log_obj[t] THEN Get(task_logs, t, <<>>) ELSE old_logs[t]

Me(s) == <<"stream", s>>

streamFrame == <<tasks, task_logs, appended, stop_flags, registryVars, executorVars,
                 log_obj, old_logs, stopreq, nstops, stop_accepted, stop_pending, projVars>>

\* app.py 154-158, 225: GET /tasks/{task_id}/stream
stream_task_logs(s, t) ==
    /\ loop = Free
    /\ streams[s].pc = "closed"
    /\ \/ /\ t \notin DOMAIN tasks
          /\ Respond("stream", t, 404)
          /\ UNCHANGED streams
       \/ /\ t \in DOMAIN tasks
          /\ streams' = [streams EXCEPT ![s] = [Closed EXCEPT !.pc = "poll", !.task_id = t]]
          /\ Respond("stream", t, 200)
    /\ UNCHANGED <<streamFrame, loop>>

\* app.py 165-174: read the task, take current_logs and the slice new_logs,
\* and yield the first new entry if there is one
StreamPoll(s) ==
    /\ loop = Free
    /\ streams[s].pc = "poll"
    /\ LET t == streams[s].task_id
           new_logs == SubSeq(task_logs[t], streams[s].last_index + 1, Len(task_logs[t]))
       IN \/ /\ t \notin DOMAIN task_logs
             /\ streams' = [streams EXCEPT ![s].pc = "check"]
             /\ loop' = Me(s)
          \/ /\ t \in DOMAIN task_logs
             /\ new_logs = <<>>
             /\ streams' = [streams EXCEPT ![s].pc = "cursor", ![s].current_logs = log_obj[t],
                                           ![s].new_logs = <<>>]
             /\ loop' = Me(s)
          \/ /\ t \in DOMAIN task_logs
             /\ new_logs # <<>>
             /\ streams' = [streams EXCEPT ![s] =
                    [Yield(@, t, Head(new_logs)) EXCEPT !.pc = "yield",
                        !.current_logs = log_obj[t], !.new_logs = Tail(new_logs)]]
             /\ loop' = Free
    /\ UNCHANGED <<streamFrame, response>>

\* app.py 174-202: the consumer takes the next event: the next entry of
\* new_logs, or the loop over new_logs ends
StreamYield(s) ==
    /\ loop = Free
    /\ streams[s].pc = "yield"
    /\ \/ /\ streams[s].new_logs # <<>>
          /\ streams' = [streams EXCEPT ![s] =
                [Yield(@, streams[s].task_id, Head(streams[s].new_logs)) EXCEPT !.new_logs = Tail(@)]]
          /\ loop' = Free
       \/ /\ streams[s].new_logs = <<>>
          /\ streams' = [streams EXCEPT ![s].pc = "cursor"]
          /\ loop' = Me(s)
    /\ UNCHANGED <<streamFrame, response>>

\* app.py 204: last_index = len(current_logs)
StreamCursor(s) ==
    /\ loop = Me(s)
    /\ streams[s].pc = "cursor"
    /\ streams' = [streams EXCEPT ![s].pc = "check",
                      ![s].last_index = Len(ListObject(streams[s].task_id, streams[s].current_logs))]
    /\ UNCHANGED <<streamFrame, response, loop>>

\* A generator that also takes RUNNING for a finished status.
IsFinished_Running(status) == status \in finished_statuses \cup {RUNNING}

\* A generator that takes only SUCCESS for a finished status.
IsFinished_SuccessOnly(status) == status = SUCCESS

\* app.py 207-212
IsFinished(status) == status \in finished_statuses

\* app.py 207-212, 223: if task["status"] in finished_statuses, else sleep
StreamCheck(s) ==
    /\ loop = Me(s)
    /\ streams[s].pc = "check"
    /\ IF IsFinished(tasks[streams[s].task_id].status)
       THEN /\ streams' = [streams EXCEPT ![s].pc = "status"]
            /\ UNCHANGED loop
       ELSE /\ streams' = [streams EXCEPT ![s].pc = "poll"]
            /\ loop' = Free
    /\ UNCHANGED <<streamFrame, response>>

\* app.py 213-221: yield the status event and break
StreamStatus(s) ==
    /\ loop = Me(s)
    /\ streams[s].pc = "status"
    /\ streams' = [streams EXCEPT ![s].pc = "done", ![s].last_event = "status",
                      ![s].nstatus = @ + 1,
                      ![s].status_event = StatusEvent(tasks[streams[s].task_id])]
    /\ loop' = Free
    /\ UNCHANGED <<streamFrame, response>>

event_generator(s) ==
    \/ StreamPoll(s)
    \/ StreamYield(s)
    \/ StreamCursor(s)
    \/ StreamCheck(s)
    \/ StreamStatus(s)

\* ------------------------------------------------------ project orchestrator
\* One project, id 1.  A request runs as a coroutine: each database
\* operation (an await) and each stretch of synchronous code between two of
\* them, docker commands included, is one step; requests on other
\* connections run between the steps.
ProjectId == 1

CallIds == 1 .. MaxCalls

\* models/project.py 15-24
ProjectStatus == {"CREATED", "PROVISIONING", "READY", "RUNNING", "STOPPED", "FAILED", "DELETED"}

NoContainer == 0

ForeignContainer == 99

\* models/project.py 27-45: the fields of a project the orchestrator acts on
NewProject(project_type) ==
    [status |-> "CREATED", container_id |-> NoContainer, last_error |-> None,
     repo_url |-> IF project_type = "REFACTOR" THEN "url" ELSE None,
     project_type |-> project_type]

NoProject ==
    [status |-> None, container_id |-> NoContainer, last_error |-> None,
     repo_url |-> None, project_type |-> None]

\* schemas/project.py 43-52: UpdateProjectRequest; None and Unset mark a
\* field the request does not set
Unset == 0 - 1

\* a repo_url the request body does not name; one it names as null is None
\* (model_dump(exclude_unset=True) keeps the latter, project_service.py 131)
NotSet == "not set"

NoRequest == [repo_url |-> NotSet, status |-> None, container_id |-> Unset]

UpdateRequests ==
    {NoRequest,
     [NoRequest EXCEPT !.repo_url = "url2"],
     [NoRequest EXCEPT !.repo_url = None],
     [NoRequest EXCEPT !.status = "CREATED"],
     [NoRequest EXCEPT !.status = "READY"],
     [NoRequest EXCEPT !.container_id = ForeignContainer]}

\* the locals of a request: of the project it has read it uses the
\* container_id only, once the checks that follow the read are done
IdleCall ==
    [op |-> "idle", pc |-> "idle", container_id |-> NoContainer,
     request |-> NoRequest, error |-> None]

NoCall == [op |-> "idle", result |-> None]

\* project_service.py 87: result["docker_status"] = None, also what a
\* response without that field holds
NoDockerStatus == [none |-> TRUE]

\* the containers that provision_project has created so far
provisioned == 1 .. next_container - 1

At(c, op, pc) == calls[c].op = op /\ calls[c].pc = pc

\* the request goes on to its next await
Step(c, pc) == calls' = [calls EXCEPT ![c].pc = pc] /\ UNCHANGED <<returned, docker_status>>

\* the request starts and reaches its first await; the outcome of the
\* request before it is history no longer
Start(c, op, pc, container_id, request) ==
    /\ calls' = [calls EXCEPT ![c] = [IdleCall EXCEPT !.op = op, !.pc = pc,
                                        !.container_id = container_id, !.request = request]]
    /\ returned' = NoCall
    /\ docker_status' = NoDockerStatus

\* the request completes: it returns the project it read last, or None,
\* or it raises
Finish(c, op, result) ==
    /\ calls' = [calls EXCEPT ![c] = IdleCall]
    /\ returned' = [op |-> op, result |-> result]
    /\ docker_status' = NoDockerStatus

\* connections are taken in order
CanStart(c) == calls[c].op = "idle" /\ \A d \in 1 .. c - 1 : calls[d].op # "idle"

\* ---- the requests of routers/agent.py
RunIds == 1 .. MaxRuns

\* the locals of an agent request: the thread_id it uses (0 for None), the
\* run_id of its path, and whether a reset has cleared the session since
\* the request read the project
IdleRun == [op |-> "idle", pc |-> "idle", thread_id |-> 0, run_id |-> 0, stale |-> FALSE]

\* project_service.py 45-57: get_project_by_id
get_project_by_id == Get(projects, ProjectId, NoProject)

Found(project) == project.status # None

\* project_service.py 358-381: _update_project_status; a container_id or
\* last_error of None is not written, and update_one changes nothing when
\* the record is gone
UpdateStatus(project, status, container_id, last_error) ==
    [project EXCEPT !.status = status,
                    !.container_id = IF container_id # NoContainer THEN container_id ELSE @,
                    !.last_error = IF last_error # None THEN last_error ELSE @]

update_project_status(status, container_id, last_error) ==
    projects' = IF ProjectId \in DOMAIN projects
                THEN Put(projects, ProjectId,
                         UpdateStatus(projects[ProjectId], status, container_id, last_error))
                ELSE projects

taskFrame == <<taskVars, sessVars, ioVars>>

\* What `docker stop` and `docker rm` answer: exit code 0, or a
\* CalledProcessError whose stderr names the missing container, or one with
\* another message (the daemon fails)
DockerAnswers(cid) ==
    IF cid \in DOMAIN containers THEN {"ok", "error"} ELSE {"No such container", "error"}

\* A remove_container that raises for every CalledProcessError.
remove_container_Strict(answer) == IF answer = "ok" THEN "removed" ELSE "raised"

\* container_service.py 262-279: the outcome of remove_container by the
\* answer of the command; "No such container" in stderr is logged only
remove_container(answer) ==
    CASE answer = "ok" -> "removed"
      [] answer = "No such container" -> "absent"
      [] OTHER -> "raised"

\* container_service.py 245-258: the outcome of stop_container, likewise
stop_container(answer) ==
    CASE answer = "ok" -> "stopped"
      [] answer = "No such container" -> "absent"
      [] OTHER -> "raised"

\* container_service.py 260-279: remove_container(force=True): the container
\* is removed, or it is not there ("No such container", no error), or the
\* command fails and the call raises
RemoveOutcomes(cid) == {remove_container(answer) : answer \in DockerAnswers(cid)}

AfterRemove(cs, cid, outcome) == IF outcome = "removed" THEN Del(cs, cid) ELSE cs

\* container_service.py 243-258: stop_container
StopOutcomes(cid) == {stop_container(answer) : answer \in DockerAnswers(cid)}

AfterStop(cs, cid, outcome) == IF outcome = "stopped" THEN Put(cs, cid, "exited") ELSE cs

\* container_service.py 113-128: ContainerService() runs `docker version`
\* and raises when the runtime does not answer; the service methods build it
\* outside their try blocks, so the request ends there
ContainerServiceRaises(c, op) == Finish(c, op, "unavailable")

\* project_service.py 23-43: create_project
create_project(project_type) ==
    /\ projects = EmptyDict
    /\ next_container = 1
    /\ returned = NoCall
    /\ \A c \in CallIds : calls[c].op = "idle"
    /\ projects' = Put(projects, ProjectId, NewProject(project_type))
    /\ UNCHANGED <<containers, next_container, calls, returned, docker_status, taskFrame>>

\* ---- get_project_with_docker_status (project_service.py 59-89)
\* An inspection that reports a missing container as one that has exited.
get_container_status_Exited(container_id) ==
    IF container_id \in DOMAIN containers
    THEN [status |-> containers[container_id]]
    ELSE [status |-> "exited"]

\* container_service.py 281-302: get_container_status; docker inspect fails
\* on a container the runtime does not have, and the function returns None
get_container_status(container_id) ==
    IF container_id \in DOMAIN containers
    THEN [status |-> containers[container_id]]
    ELSE NoDockerStatus

\* 73-83: the docker_status of the result
DockerStatusOf(container_id) ==
    LET status == get_container_status(container_id) IN
    IF status # NoDockerStatus THEN status
    ELSE [status |-> "not_found", inconsistent |-> TRUE]

\* 63-65, 69, 86-87: the read; None without a record, docker_status None
\* without a container_id
DockerStatusGet(c) ==
    /\ CanStart(c)
    /\ LET project == get_project_by_id IN
       IF ~Found(project) THEN Finish(c, "get", "not_found")
       ELSE IF project.container_id = NoContainer THEN Finish(c, "get", "returned")
       ELSE Start(c, "get", "inspect", project.container_id, NoRequest)
    /\ UNCHANGED <<projects, containers, next_container, taskFrame>>

\* 70-84, 89: the inspection of the container that the read record names
DockerStatusInspect(c) ==
    /\ At(c, "get", "inspect")
    /\ \/ ContainerServiceRaises(c, "get")
       \/ /\ calls' = [calls EXCEPT ![c] = IdleCall]
          /\ returned' = [op |-> "get", result |-> "returned"]
          /\ docker_status' = DockerStatusOf(calls[c].container_id)
    /\ UNCHANGED <<projects, containers, next_container, taskFrame>>

get_project_with_docker_status(c) == DockerStatusGet(c) \/ DockerStatusInspect(c)

\* ---- provision_project (project_service.py 210-302)
\* A guard that also lets a READY project be provisioned again.
ProvisionAllowed_Ready(status) == status \in {"CREATED", "STOPPED", "FAILED", "READY"}

\* 227: the status guard
ProvisionAllowed(status) == status \in {"CREATED", "STOPPED", "FAILED"}

\* 233: the old container to remove, if any
OldContainer(project) ==
    IF project.status \in {"STOPPED", "FAILED"} THEN project.container_id ELSE NoContainer

\* 219-230: ContainerService(), project = await
\* self.get_project_by_id(project_id), and the status guard on what was read
ProvisionGet(c) ==
    /\ CanStart(c)
    /\ next_container <= MaxContainers
    /\ \/ ContainerServiceRaises(c, "provision")
       \/ LET project == get_project_by_id IN
          IF ~Found(project) THEN Finish(c, "provision", "not_found")
          ELSE IF ~ProvisionAllowed(project.status) THEN Finish(c, "provision", "rejected")
          ELSE Start(c, "provision", "clean", OldContainer(project), NoRequest)
    /\ UNCHANGED <<projects, containers, next_container, taskFrame>>

\* 233-241: remove the old container; a failure is logged
ProvisionClean(c) ==
    /\ At(c, "provision", "clean")
    /\ LET cid == calls[c].container_id IN
       IF cid = NoContainer THEN UNCHANGED containers
       ELSE \E outcome \in RemoveOutcomes(cid) :
               containers' = AfterRemove(containers, cid, outcome)
    /\ calls' = [calls EXCEPT ![c].pc = "set_provisioning", ![c].container_id = NoContainer]
    /\ UNCHANGED <<projects, next_container, returned, docker_status, taskFrame>>

\* 244-246: await self._update_project_status(PROVISIONING, last_error=None)
ProvisionSetProvisioning(c) ==
    /\ At(c, "provision", "set_provisioning")
    /\ update_project_status("PROVISIONING", NoContainer, None)
    /\ Step(c, "build")
    /\ UNCHANGED <<containers, next_container, taskFrame>>

\* container_service.py 171-189: docker create --name refactor-project-<id>;
\* the runtime refuses a name that a container already has
CanCreate == DOMAIN containers = {}

\* 249-273 and, on an exception, 286-295: prepare the directories, create
\* and start the container, clone the repository or set up the workspace;
\* a failure removes the container this call created, if it can
ProvisionBuild(c) ==
    /\ At(c, "provision", "build")
    /\ \/ \* every step succeeds
          /\ CanCreate
          /\ containers' = Put(containers, next_container, "running")
          /\ next_container' = next_container + 1
          /\ calls' = [calls EXCEPT ![c].pc = "set_ready", ![c].container_id = next_container]
          /\ UNCHANGED <<returned, docker_status>>
       \/ \* the directories or docker create fail: no container
          /\ calls' = [calls EXCEPT ![c].pc = "set_failed", ![c].error = "provision failed"]
          /\ UNCHANGED <<containers, next_container, returned, docker_status>>
       \/ \* docker start, the clone or the workspace setup fails
          /\ CanCreate
          /\ \E outcome \in {"removed", "raised"} :
                containers' = IF outcome = "removed" THEN containers
                              ELSE Put(containers, next_container, "created")
          /\ next_container' = next_container + 1
          /\ calls' = [calls EXCEPT ![c].pc = "set_failed", ![c].container_id = next_container,
                                   ![c].error = "provision failed"]
          /\ UNCHANGED <<returned, docker_status>>
    /\ UNCHANGED <<projects, taskFrame>>

\* 276-281: await self._update_project_status(READY, container_id, last_error=None)
ProvisionSetReady(c) ==
    /\ At(c, "provision", "set_ready")
    /\ update_project_status("READY", calls[c].container_id, None)
    /\ Step(c, "return")
    /\ UNCHANGED <<containers, next_container, taskFrame>>

\* 284: return await self.get_project_by_id(project_id)
ProvisionReturn(c) ==
    /\ At(c, "provision", "return")
    /\ Finish(c, "provision", IF Found(get_project_by_id) THEN "returned" ELSE "not_found")
    /\ UNCHANGED <<projects, containers, next_container, taskFrame>>

\* 298-302: await self._update_project_status(FAILED, last_error=error_msg); raise
ProvisionSetFailed(c) ==
    /\ At(c, "provision", "set_failed")
    /\ update_project_status("FAILED", NoContainer, calls[c].error)
    /\ Finish(c, "provision", "raised")
    /\ UNCHANGED <<containers, next_container, taskFrame>>

provision_project(c) ==
    \/ ProvisionGet(c)
    \/ ProvisionClean(c)
    \/ ProvisionSetProvisioning(c)
    \/ ProvisionBuild(c)
    \/ ProvisionSetReady(c)
    \/ ProvisionReturn(c)
    \/ ProvisionSetFailed(c)

\* ---- stop_project (project_service.py 147-176)
\* 149-158: ContainerService(), the read, and the check that the project
\* has a container
StopGet(c) ==
    /\ CanStart(c)
    /\ \/ ContainerServiceRaises(c, "stop")
       \/ LET project == get_project_by_id IN
          IF ~Found(project) THEN Finish(c, "stop", "not_found")
          ELSE IF project.container_id = NoContainer THEN Finish(c, "stop", "rejected")
          ELSE Start(c, "stop", "stop_container", project.container_id, NoRequest)
    /\ UNCHANGED <<projects, containers, next_container, taskFrame>>

\* 160-162, 170-172: container_service.stop_container(project.container_id)
StopContainer(c) ==
    /\ At(c, "stop", "stop_container")
    /\ \E outcome \in StopOutcomes(calls[c].container_id) :
          /\ containers' = AfterStop(containers, calls[c].container_id, outcome)
          /\ calls' = [calls EXCEPT
                         ![c].pc = IF outcome = "raised" THEN "set_failed" ELSE "set_stopped",
                         ![c].error = IF outcome = "raised" THEN "stop failed" ELSE None,
                         ![c].container_id = NoContainer]
    /\ UNCHANGED <<projects, next_container, returned, docker_status, taskFrame>>

\* 165: await self._update_project_status(project_id, ProjectStatus.STOPPED)
StopSetStopped(c) ==
    /\ At(c, "stop", "set_stopped")
    /\ update_project_status("STOPPED", NoContainer, None)
    /\ Step(c, "return")
    /\ UNCHANGED <<containers, next_container, taskFrame>>

\* 168: return await self.get_project_by_id(project_id)
StopReturn(c) ==
    /\ At(c, "stop", "return")
    /\ Finish(c, "stop", IF Found(get_project_by_id) THEN "returned" ELSE "not_found")
    /\ UNCHANGED <<projects, containers, next_container, taskFrame>>

\* 173-176: await self._update_project_status(FAILED, last_error=error_msg); raise
StopSetFailed(c) ==
    /\ At(c, "stop", "set_failed")
    /\ update_project_status("FAILED", NoContainer, calls[c].error)
    /\ Finish(c, "stop", "raised")
    /\ UNCHANGED <<containers, next_container, taskFrame>>

stop_project(c) ==
    \/ StopGet(c)
    \/ StopContainer(c)
    \/ StopSetStopped(c)
    \/ StopReturn(c)
    \/ StopSetFailed(c)

\* ---- delete_project (project_service.py 178-208)
\* 180-185: ContainerService() and the read
DeleteGet(c) ==
    /\ CanStart(c)
    /\ \/ ContainerServiceRaises(c, "delete")
       \/ LET project == get_project_by_id IN
          IF ~Found(project) THEN Finish(c, "delete", "not_found")
          ELSE Start(c, "delete", "remove_container", project.container_id, NoRequest)
    /\ UNCHANGED <<projects, containers, next_container, taskFrame>>

\* 188-193: remove the container if there is one; a failure is logged
DeleteRemoveContainer(c) ==
    /\ At(c, "delete", "remove_container")
    /\ LET cid == calls[c].container_id IN
       IF cid = NoContainer THEN UNCHANGED containers
       ELSE \E outcome \in RemoveOutcomes(cid) :
               containers' = AfterRemove(containers, cid, outcome)
    /\ calls' = [calls EXCEPT ![c].pc = "delete_one", ![c].container_id = NoContainer]
    /\ UNCHANGED <<projects, next_container, returned, docker_status, taskFrame>>

\* 201-206: result = await self.collection.delete_one({"_id": obj_id})
DeleteOne(c) ==
    /\ At(c, "delete", "delete_one")
    /\ projects' = Del(projects, ProjectId)
    /\ Finish(c, "delete", IF ProjectId \in DOMAIN projects THEN "deleted" ELSE "not_found")
    /\ UNCHANGED <<containers, next_container, taskFrame>>

delete_project(c) ==
    \/ DeleteGet(c)
    \/ DeleteRemoveContainer(c)
    \/ DeleteOne(c)

\* ---- PUT /projects/{id} (routers/projects.py 75-110, project_service.py 113-145)
\* routers/projects.py 97: repo_url is refused once the status has left CREATED
\* (`request.repo_url is not None`: a field that is not set reads as None)
UpdateRefused(project, request) ==
    project.status # "CREATED" /\ request.repo_url \notin {NotSet, None}

\* routers/projects.py 84-101: read the project, check the request
UpdateGet(c, request) ==
    /\ CanStart(c)
    /\ LET project == get_project_by_id IN
       IF ~Found(project)
       THEN Finish(c, "update", "not_found")
       ELSE IF UpdateRefused(project, request)
       THEN Finish(c, "update", "rejected")
       ELSE Start(c, "update", "update_one", NoContainer, request)
    /\ UNCHANGED <<projects, containers, next_container, taskFrame>>

\* project_service.py 131-139: update_dict = update.model_dump(exclude_unset=True);
\* update_one({"$set": update_dict})
ApplyUpdate(project, request) ==
    [project EXCEPT
        !.repo_url = IF request.repo_url # NotSet THEN request.repo_url ELSE @,
        !.status = IF request.status # None THEN request.status ELSE @,
        !.container_id = IF request.container_id # Unset THEN request.container_id ELSE @]

\* project_service.py 138-145
UpdateOne(c) ==
    /\ At(c, "update", "update_one")
    /\ IF ProjectId \in DOMAIN projects
       THEN /\ projects' = Put(projects, ProjectId,
                               ApplyUpdate(projects[ProjectId], calls[c].request))
            /\ Finish(c, "update", "returned")
       ELSE /\ UNCHANGED projects
            /\ Finish(c, "update", "not_found")
    /\ UNCHANGED <<containers, next_container, taskFrame>>

update_project(c) ==
    \/ \E request \in UpdateRequests : UpdateGet(c, request)
    \/ UpdateOne(c)

\* ------------------------------------------------------- stream forwarding
\* routers/agent.py 182-226 and routers/chat.py 212-261. A text is a sequence
\* of characters; LF is the line feed.
MaxLines == 2
MaxLineLen == 2

LF == "\n"

Chars == {"a", ":"}

SeqsUpTo(S, n) == UNION {[1 .. k -> S] : k \in 0 .. n}

\* a line as response.aiter_lines() yields it: no line ending in it
SourceLines == SeqsUpTo(Chars, MaxLineLen)

Endpoints == {"stream_agent_logs", "stream_chat_response"}

\* what the request to the task server may raise: the first three are
\* httpx.HTTPError, the last one is not
Failures == {"ConnectError", "ReadError", "RemoteProtocolError", "RuntimeError"}

IsHTTPError(e) == e \in {"ConnectError", "ReadError", "RemoteProtocolError"}

NoRelay == [endpoint |-> "none", at |-> "idle", failure |-> "none"]

\* routers/agent.py 207: (line + "\n").encode('utf-8')
Encode_Bare(line) == line

Encode(line) == line \o <<LF>>

\* routers/agent.py 211-218: f"event: error\ndata: {error_msg}\n\n"
ErrorEvent(e) ==
    <<"event: error", LF,
      IF IsHTTPError(e) THEN "data: HTTP error" ELSE "data: Stream error", LF, LF>>

\* client.stream("GET", url) is entered
RelayOpen(endpoint) ==
    /\ relay_pc.endpoint = endpoint
    /\ relay_pc.at = "open"
    /\ relay_pc' = [relay_pc EXCEPT !.at = "lines"]
    /\ UNCHANGED <<upstream, received, emitted, taskVars, sessVars, svcVars, chat_sessions,
                   projects, containers, next_container, calls, returned, docker_status>>

\* one turn of `async for line in response.aiter_lines()`
RelayLine(endpoint) ==
    /\ relay_pc.endpoint = endpoint
    /\ relay_pc.at = "lines"
    /\ received < Len(upstream)
    /\ received' = received + 1
    /\ emitted' = emitted \o Encode(upstream[received + 1])
    /\ UNCHANGED <<upstream, relay_pc, taskVars, sessVars, svcVars, chat_sessions,
                   projects, containers, next_container, calls, returned, docker_status>>

\* the response is exhausted: the generator returns
RelayEnd(endpoint) ==
    /\ relay_pc.endpoint = endpoint
    /\ relay_pc.at = "lines"
    /\ received = Len(upstream)
    /\ relay_pc' = [relay_pc EXCEPT !.at = "done"]
    /\ UNCHANGED <<upstream, received, emitted, taskVars, sessVars, svcVars, chat_sessions,
                   projects, containers, next_container, calls, returned, docker_status>>

\* the request raises, on connecting or while the lines are read: the two
\* except clauses yield one error event and the generator returns
RelayFails(endpoint, e) ==
    /\ relay_pc.endpoint = endpoint
    /\ relay_pc.at \in {"open", "lines"}
    /\ emitted' = emitted \o ErrorEvent(e)
    /\ relay_pc' = [relay_pc EXCEPT !.at = "done", !.failure = e]
    /\ UNCHANGED <<upstream, received, taskVars, sessVars, svcVars, chat_sessions,
                   projects, containers, next_container, calls, returned, docker_status>>

forward(endpoint) ==
    \/ RelayOpen(endpoint)
    \/ RelayLine(endpoint)
    \/ RelayEnd(endpoint)
    \/ \E e \in Failures : RelayFails(endpoint, e)

stream_agent_logs == forward("stream_agent_logs")

stream_chat_response == forward("stream_chat_response")

\* ------------------------------------------------------- container service
\* container_service.py. A text is a sequence of characters. The texts of
\* the model are built from the characters below; a word such as "https://"
\* or "workspace" stands for its letters and is never split.
MaxText == 3
MaxPath == 3

CR == "\r"

\* container_service.py 33: the characters _sanitize_git_url refuses; "GRAVE"
\* stands for the grave accent
url_dangerous_chars ==
    {";", "&", "|", "$", "GRAVE", "(", ")", "{", "}", "[", "]", "<", ">", "!", LF, CR}

\* container_service.py 90: the characters _sanitize_path refuses
path_dangerous_chars ==
    {";", "&", "|", "$", "GRAVE", "(", ")", "{", "}", "<", ">", "!", LF, CR, "'", "\""}

CloneChars == {"https://", "a", ".", "/"} \cup url_dangerous_chars

PathChars == {"/", ".", "a", "workspace", "%2e", "%2E", "%252e", "%252E", "%2f", ";", "'"}

Timeouts == {120, 300}

NoSvcCall ==
    [op |-> "none", repo_url |-> <<>>, branch |-> <<>>, path |-> <<>>, timeout |-> 0,
     pc |-> "idle", timed_out |-> FALSE]

NotRaised == [kind |-> "none", message |-> "none", seconds |-> 0]

Raise(kind, message) == [kind |-> kind, message |-> message, seconds |-> 0]

Return(value) == [kind |-> "returned", message |-> value, seconds |-> 0]

Contains(text, part) ==
    \E i \in 1 .. Len(text) - Len(part) + 1 : SubSeq(text, i, i + Len(part) - 1) = part

StartsWith(text, prefix) ==
    Len(prefix) <= Len(text) /\ SubSeq(text, 1, Len(prefix)) = prefix

EndsWith(text, c) == text # <<>> /\ text[Len(text)] = c

\* re.match(r'^...$', text): `$` matches at the end of the text and also just
\* before a line feed that ends it
BeforeDollar(text) ==
    {text} \cup (IF EndsWith(text, LF) THEN {SubSeq(text, 1, Len(text) - 1)} ELSE {})

\* container_service.py 27: [a-zA-Z0-9\-_.@:/]
InUrlClass(c) == c \in {"a", ".", "/", "-", "_", "@", ":", "main", "workspace", "https://", "git@"}

\* container_service.py 27: (https?://|git@)
IsScheme(c) == c \in {"https://", "git@"}

\* container_service.py 51: [a-zA-Z0-9\-_./]
InBranchClass(c) == c \in {"a", ".", "/", "-", "_", "main", "workspace"}

\* container_service.py 15-38
_sanitize_git_url(url) ==
    IF url = <<>> THEN Raise("ValueError", "empty")
    ELSE IF ~ \E body \in BeforeDollar(url) :
                /\ Len(body) >= 2
                /\ IsScheme(body[1])
                /\ \A i \in 2 .. Len(body) : InUrlClass(body[i])
         THEN Raise("ValueError", "format")
    ELSE IF \E i \in 1 .. Len(url) : url[i] \in url_dangerous_chars
         THEN Raise("ValueError", "character")
    ELSE Return(url)

\* container_service.py 41-64
_sanitize_branch_name(branch) ==
    IF branch = <<>> THEN Return(<<"main">>)
    ELSE IF ~ \E body \in BeforeDollar(branch) :
                /\ Len(body) >= 1
                /\ \A i \in 1 .. Len(body) : InBranchClass(body[i])
         THEN Raise("ValueError", "format")
    ELSE IF Contains(branch, <<".", ".">>) \/ Contains(branch, <<"/", "/">>)
         THEN Raise("ValueError", "format")
    ELSE IF \/ branch[1] \in {".", "/"}
            \/ EndsWith(branch, ".")
            \/ EndsWith(branch, "/")
         THEN Raise("ValueError", "format")
    ELSE Return(branch)

\* str.lower()
Lower_Same(c) == c

Lower(c) ==
    CASE c = "%2E" -> "%2e"
      [] c = "%252E" -> "%252e"
      [] OTHER -> c

\* container_service.py 78-84
traversal_patterns ==
    {<<".", ".">>, <<"%2e", "%2e">>, <<"%252e", "%252e">>, <<"%2f">>, <<"%252f">>}

RECURSIVE SplitOn(_, _)
\* text.split(sep)
SplitOn(text, sep) ==
    IF \A i \in 1 .. Len(text) : text[i] # sep THEN <<text>>
    ELSE LET k == CHOOSE i \in 1 .. Len(text) :
                     text[i] = sep /\ \A j \in 1 .. i - 1 : text[j] # sep
         IN  <<SubSeq(text, 1, k - 1)>> \o SplitOn(SubSeq(text, k + 1, Len(text)), sep)

RECURSIVE Join(_, _)
\* sep.join(parts)
Join(parts, sep) ==
    IF parts = <<>> THEN <<>>
    ELSE IF Len(parts) = 1 THEN parts[1]
    ELSE parts[1] \o <<sep>> \o Join(Tail(parts), sep)

RECURSIVE NormComps(_, _, _)
\* the loop of posixpath.normpath over the components of the path
NormComps(comps, new_comps, initial_slashes) ==
    IF comps = <<>> THEN new_comps
    ELSE LET comp == Head(comps)
             kept ==
                 IF comp \in {<<>>, <<".">>} THEN new_comps
                 ELSE IF \/ comp # <<".", ".">>
                         \/ (initial_slashes = 0 /\ new_comps = <<>>)
                         \/ (new_comps # <<>> /\ new_comps[Len(new_comps)] = <<".", ".">>)
                      THEN Append(new_comps, comp)
                 ELSE IF new_comps # <<>> THEN SubSeq(new_comps, 1, Len(new_comps) - 1)
                 ELSE new_comps
         IN  NormComps(Tail(comps), kept, initial_slashes)

\* os.path.normpath of a text that is not empty
normpath(path) ==
    LET initial_slashes ==
            IF path[1] # "/" THEN 0
            ELSE IF Len(path) >= 2 /\ path[2] = "/" /\ ~(Len(path) >= 3 /\ path[3] = "/")
                 THEN 2
            ELSE 1
        joined == Join(NormComps(SplitOn(path, "/"), <<>>, initial_slashes), "/")
        result == [i \in 1 .. initial_slashes |-> "/"] \o joined
    IN  IF result = <<>> THEN <<".">> ELSE result

\* os.path.join(base_path, path) for a path that does not start with "/"
join(base_path, path) ==
    IF EndsWith(base_path, "/") THEN base_path \o path ELSE base_path \o <<"/">> \o path

\* container_service.py 597: the base_path of every call
Workspace == <<"/", "workspace">>

\* container_service.py 67-108
_sanitize_path(path, base_path) ==
    IF path = <<>> THEN Raise("ValueError", "empty")
    ELSE IF \E pattern \in traversal_patterns :
                Contains([i \in 1 .. Len(path) |-> Lower(path[i])], pattern)
         THEN Raise("ValueError", "traversal")
    ELSE IF \E i \in 1 .. Len(path) : path[i] \in path_dangerous_chars
         THEN Raise("ValueError", "character")
    ELSE LET normalized == normpath(path)
             full_path == IF ~StartsWith(normalized, <<"/">>)
                          THEN normpath(join(base_path, normalized))
                          ELSE normalized
         IN  IF ~StartsWith(full_path, base_path) THEN Raise("ValueError", "outside")
             ELSE Return(full_path)

\* shlex.quote: a text of safe characters stays as it is, another one is put
\* between single quotes, with every single quote of it written '"'"'
quote(text) ==
    IF text = <<>> THEN <<"''">>
    ELSE IF \A i \in 1 .. Len(text) :
                text[i] \notin url_dangerous_chars \cup path_dangerous_chars
         THEN text
    ELSE <<"'">> \o [i \in 1 .. Len(text) |-> IF text[i] = "'" THEN "'\"'\"'" ELSE text[i]]
               \o <<"'">>

\* what one subprocess.run does: the command ends with exit code 0 or with
\* another one, runs longer than its timeout, or cannot be started
RunOutcomes == {"ok", "failed", "timeout", "error"}

svcFrame ==
    <<relayVars, taskVars, sessVars, chat_sessions,
      projects, containers, next_container, calls, returned, docker_status>>

SvcAt(op, pc) == svc_call.op = op /\ svc_call.pc = pc

SvcDone(outcome) ==
    /\ svc_call' = [svc_call EXCEPT !.pc = "done"]
    /\ svc_raised' = outcome

SvcGoto(pc) ==
    /\ svc_call' = [svc_call EXCEPT !.pc = pc]
    /\ UNCHANGED svc_raised

\* container_service.py 400-403, 440-442, 637-639: the handler of
\* subprocess.TimeoutExpired raises Exception with a message
TimedOut(message, seconds) ==
    /\ svc_call' = [svc_call EXCEPT !.pc = "done", !.timed_out = TRUE]
    /\ svc_raised' = [kind |-> "Exception", message |-> message, seconds |-> seconds]

\* container_service.py 346-348
CloneSanitize ==
    /\ SvcAt("clone_repository", "sanitize")
    /\ LET safe_repo_url == _sanitize_git_url(svc_call.repo_url)
           safe_branch == _sanitize_branch_name(svc_call.branch)
       IN  IF safe_repo_url.kind # "returned" THEN SvcDone(safe_repo_url)
           ELSE IF safe_branch.kind # "returned" THEN SvcDone(safe_branch)
           ELSE SvcGoto("cleanup")
    /\ UNCHANGED <<commands, svcFrame>>

\* container_service.py 351-360: the exit code of the cleanup is not read
CloneCleanup(outcome) ==
    /\ SvcAt("clone_repository", "cleanup")
    /\ commands' = Append(commands, <<"rm -rf ">> \o quote(<<"/", "workspace", "/", "repo">>))
    /\ CASE outcome = "timeout" -> TimedOut("Clone repository timeout", svc_call.timeout)
         [] outcome = "error" -> SvcDone(Raise("OSError", "failed"))
         [] OTHER -> SvcGoto("clone")
    /\ UNCHANGED svcFrame

\* container_service.py 362-406
CloneRun(outcome) ==
    /\ SvcAt("clone_repository", "clone")
    /\ commands' = Append(commands,
                          <<"git clone --branch ">>
                              \o quote(_sanitize_branch_name(svc_call.branch).message)
                              \o <<" --depth 1 ">>
                              \o quote(_sanitize_git_url(svc_call.repo_url).message)
                              \o <<" ">> \o quote(<<"/", "workspace", "/", "repo">>))
    /\ CASE outcome = "timeout" -> TimedOut("Clone repository timeout", svc_call.timeout)
         [] outcome = "error" -> SvcDone(Raise("OSError", "failed"))
         [] outcome = "failed" -> SvcDone(Raise("Exception", "Clone repository failed"))
         [] OTHER -> SvcDone(Return("exit code"))
    /\ UNCHANGED svcFrame

clone_repository ==
    \/ CloneSanitize
    \/ \E outcome \in RunOutcomes : CloneCleanup(outcome)
    \/ \E outcome \in RunOutcomes : CloneRun(outcome)

\* container_service.py 408-445: the command is given to sh as it is
exec_command ==
    /\ SvcAt("exec_command", "run")
    /\ commands' = Append(commands, svc_call.path)
    /\ \E outcome \in RunOutcomes :
          CASE outcome = "timeout" -> TimedOut("Exec timeout", svc_call.timeout)
            [] outcome = "error" -> SvcDone(Raise("OSError", "failed"))
            [] OTHER -> SvcDone(Return("exit code"))
    /\ UNCHANGED svcFrame

\* container_service.py 483-528: the path is written into the command as it
\* is; every failure returns the empty list
list_files ==
    /\ SvcAt("list_files", "run")
    /\ commands' = Append(commands,
                          <<"find ">> \o svc_call.path
                              \o <<" -mindepth 1 ! -path '/workspace/agent' | sort">>)
    /\ \E outcome \in RunOutcomes :
          IF outcome = "ok" THEN SvcDone(Return("tree")) ELSE SvcDone(Return("[]"))
    /\ UNCHANGED svcFrame

\* container_service.py 596-597
ReadSanitize ==
    /\ SvcAt("read_file", "sanitize")
    /\ LET full_path == _sanitize_path(svc_call.path, Workspace)
       IN  IF full_path.kind # "returned" THEN SvcDone(full_path) ELSE SvcGoto("stat")
    /\ UNCHANGED <<commands, svcFrame>>

\* container_service.py 599-617: the size is read; a size of 0 and a size
\* over max_size raise
ReadStat(outcome) ==
    /\ SvcAt("read_file", "stat")
    /\ commands' = Append(commands,
                          <<"stat -c %s ">>
                              \o quote(_sanitize_path(svc_call.path, Workspace).message))
    /\ CASE outcome = "timeout" -> TimedOut("Read timeout", 0)
         [] outcome = "error" -> SvcDone(Raise("OSError", "failed"))
         [] outcome = "empty" -> SvcDone(Raise("FileNotFoundError", "empty"))
         [] outcome = "large" -> SvcDone(Raise("ValueError", "large"))
         [] OTHER -> SvcGoto("cat")
    /\ UNCHANGED svcFrame

\* container_service.py 619-639
ReadCat(outcome) ==
    /\ SvcAt("read_file", "cat")
    /\ commands' = Append(commands,
                          <<"cat ">> \o quote(_sanitize_path(svc_call.path, Workspace).message))
    /\ CASE outcome = "timeout" -> TimedOut("Read timeout", 0)
         [] outcome = "error" -> SvcDone(Raise("OSError", "failed"))
         [] outcome = "failed" -> SvcDone(Raise("FileNotFoundError", "unreadable"))
         [] OTHER -> SvcDone(Return("content"))
    /\ UNCHANGED svcFrame

read_file ==
    \/ ReadSanitize
    \/ \E outcome \in RunOutcomes \cup {"empty", "large"} : ReadStat(outcome)
    \/ \E outcome \in RunOutcomes : ReadCat(outcome)

\* ------------------------------------------------------------ specification
\* state.py 9-21: the registry starts empty
Installed ==
    /\ tasks = EmptyDict
    /\ task_logs = EmptyDict
    /\ stop_flags = EmptyDict
    /\ refactor_agents = EmptyDict
    /\ chat_agents = EmptyDict
    /\ agent_objs = EmptyDict
    /\ postgres_url \in BOOLEAN
    /\ epc = [t \in TaskIds |-> "none"]
    /\ eagent = [t \in TaskIds |-> 0]
    /\ nevents = [t \in TaskIds |-> 0]
    /\ nchunks = [t \in TaskIds |-> 0]
    /\ log_obj = [t \in TaskIds |-> 0]
    /\ old_logs = [t \in TaskIds |-> <<>>]
    /\ appended = [t \in TaskIds |-> <<>>]
    /\ stopreq = Idle
    /\ nstops = 0
    /\ stop_accepted = {}
    /\ stop_pending = {}
    /\ streams = [s \in StreamIds |-> Closed]
    /\ loop = Free
    /\ response = [op |-> "none", task_id |-> 0, code |-> 0]
    /\ projects = EmptyDict
    /\ containers = EmptyDict
    /\ next_container = 1
    /\ calls = [c \in CallIds |-> IdleCall]
    /\ returned = NoCall
    /\ docker_status = NoDockerStatus
    /\ refactor_thread_id = 0
    /\ next_uuid = 1
    /\ runs = [c \in RunIds |-> IdleRun]
    /\ session_threads = {}

\* no stream is being forwarded and no container service call is under way
Quiet ==
    /\ upstream = <<>>
    /\ received = 0
    /\ emitted = <<>>
    /\ relay_pc = NoRelay
    /\ svc_call = NoSvcCall
    /\ commands = <<>>
    /\ svc_raised = NotRaised
    /\ chat_sessions = {}

Init == Installed /\ Quiet

Registry ==
    \/ \E has_thread_id \in BOOLEAN : run_agent(has_thread_id)
    \/ chat
    \/ \E t \in TaskIds : StopTaskCheck(t)
    \/ StopTaskSetFlag
    \/ StopTaskLog
    \/ \E t \in TaskIds : resume_task(t)
    \/ \E t \in TaskIds : execute(t)

\* The task registry: submit, stop, resume and the executors.
Next == Registry

Spec == Init /\ [][Next]_vars

\* The registry of at most MaxStreamTasks tasks, with the log streams.
\* The stream specifications start on a server that has served one chat
\* request: task 1 ran on a new agent of the request's thread, the model
\* returned no chunk, and the task ended in SUCCESS (a state of Spec).
FirstChatLog ==
    <<"start", "postgres", "init LLM", "LLM ready", "create agent", "agent created",
      "run agent", "run complete">>

FirstChatEntry(i) == [timestamp |-> i, kind |-> "log", text |-> FirstChatLog[i]]

InitStream ==
    /\ tasks = Put(EmptyDict, 1,
                   [NewTask(1, ReqThread, "chat", None, 0) EXCEPT
                        !.status = SUCCESS, !.started_at = "now", !.finished_at = "now"])
    /\ task_logs = Put(EmptyDict, 1, [i \in 1 .. Len(FirstChatLog) |-> FirstChatEntry(i)])
    /\ appended = [t \in TaskIds |->
                      IF t = 1
                      THEN [i \in 1 .. Len(FirstChatLog) |->
                               [entry |-> FirstChatEntry(i),
                                nonterminal |-> i < Len(FirstChatLog)]]
                      ELSE <<>>]
    /\ stop_flags = EmptyDict
    /\ refactor_agents = EmptyDict
    /\ chat_agents = Put(EmptyDict, ReqThread, 1)
    /\ agent_objs = Put(EmptyDict, 1, 1)
    /\ postgres_url = TRUE
    /\ epc = [t \in TaskIds |-> IF t = 1 THEN "done" ELSE "none"]
    /\ eagent = [t \in TaskIds |-> IF t = 1 THEN 1 ELSE 0]
    /\ nevents = [t \in TaskIds |-> 0]
    /\ nchunks = [t \in TaskIds |-> 0]
    /\ log_obj = [t \in TaskIds |-> IF t = 1 THEN 1 ELSE 0]
    /\ old_logs = [t \in TaskIds |-> <<>>]
    /\ stopreq = Idle
    /\ nstops = 0
    /\ stop_accepted = {}
    /\ stop_pending = {}
    /\ streams = [s \in StreamIds |-> Closed]
    /\ loop = Free
    /\ response = [op |-> "chat", task_id |-> 1, code |-> 200]
    /\ projects = EmptyDict
    /\ containers = EmptyDict
    /\ next_container = 1
    /\ calls = [c \in CallIds |-> IdleCall]
    /\ returned = NoCall
    /\ docker_status = NoDockerStatus
    /\ refactor_thread_id = 0
    /\ next_uuid = 1
    /\ runs = [c \in RunIds |-> IdleRun]
    /\ session_threads = {}
    /\ Quiet

\* The tasks submitted while the streams are open.
StreamTaskIds == 1 .. 1 + MaxStreamTasks

SubmitStream ==
    /\ NextTaskId \in StreamTaskIds
    /\ \/ run_agent(FALSE)
       \/ chat

NextStream ==
    \/ SubmitStream
    \/ \E t \in StreamTaskIds : StopTaskCheck(t)
    \/ StopTaskSetFlag
    \/ StopTaskLog
    \/ \E t \in StreamTaskIds : execute(t)
    \/ \E s \in StreamIds, t \in StreamTaskIds : stream_task_logs(s, t)
    \/ \E s \in StreamIds : event_generator(s)

SpecStream == InitStream /\ [][NextStream]_vars

\* The project orchestrator and the container runtime.
NextProject ==
    \/ \E project_type \in {"REFACTOR", "SANDBOX"} : create_project(project_type)
    \/ \E c \in CallIds : provision_project(c)
    \/ \E c \in CallIds : stop_project(c)
    \/ \E c \in CallIds : delete_project(c)
    \/ \E c \in CallIds : update_project(c)
    \/ \E c \in CallIds : get_project_with_docker_status(c)

InitProject == Init /\ postgres_url

SpecProject == InitProject /\ [][NextProject]_vars

\* ------------------------------------ agent runs of a project (routers/agent.py)
\* The thread_id f"refactor-{project_id}-{uuid4}" as the task server gets it.
ThreadOf(n) == [src |-> "request", n |-> n]

\* app.py 89-126: POST /run with the thread_id of the request body
post_run(op, thread_id) ==
    /\ loop = Free
    /\ NextTaskId <= MaxTasks
    /\ tasks' = Put(tasks, NextTaskId, NewTask(NextTaskId, thread_id, "run", "spec", 0))
    /\ Schedule(NextTaskId)
    /\ Respond(op, NextTaskId, 200)

sessFrame == <<task_logs, appended, stop_flags, registryVars, eagent, nevents, nchunks,
               log_obj, old_logs, stopreq, nstops, stop_accepted, stop_pending, streams,
               loop, projects, containers, next_container, calls, returned, docker_status,
               ioVars>>

RunCanStart(c) == runs[c].op = "idle" /\ \A d \in 1 .. c - 1 : runs[d].op # "idle"

\* A guard that refuses only a project that was never provisioned.
NotReady_Created(project) == project.status = "CREATED"

\* routers/agent.py 54 and routers/chat.py 106: project.status != READY
NotReady(project) == project.status # "READY"

\* dependencies/auth.py 88 and routers/agent.py 54-66: the project is read,
\* its status checked, and its refactor_thread_id taken or generated
AgentRunRead(c) ==
    /\ RunCanStart(c)
    /\ IF NotReady(get_project_by_id)
       THEN /\ Respond("agent_run", 0, 400)
            /\ UNCHANGED <<runs, next_uuid>>
       ELSE IF refactor_thread_id = 0
       THEN /\ next_uuid <= MaxUuids
            /\ next_uuid' = next_uuid + 1
            /\ runs' = [runs EXCEPT ![c] = [IdleRun EXCEPT !.op = "run", !.pc = "store",
                                                            !.thread_id = next_uuid]]
            /\ UNCHANGED response
       ELSE /\ runs' = [runs EXCEPT ![c] = [IdleRun EXCEPT !.op = "run", !.pc = "post",
                                                            !.thread_id = refactor_thread_id]]
            /\ UNCHANGED <<response, next_uuid>>
    /\ UNCHANGED <<tasks, epc, refactor_thread_id, session_threads, sessFrame>>

\* routers/agent.py 67: update_project(project_id, {"refactor_thread_id": thread_id})
AgentRunStore(c) ==
    /\ runs[c].op = "run" /\ runs[c].pc = "store"
    /\ refactor_thread_id' = runs[c].thread_id
    /\ runs' = [runs EXCEPT ![c].pc = "post"]
    /\ UNCHANGED <<tasks, epc, response, next_uuid, session_threads, sessFrame>>

\* routers/agent.py 72-96: the POST to the task server and the response
AgentRunPost(c) ==
    /\ runs[c].op = "run" /\ runs[c].pc = "post"
    /\ post_run("agent_run", ThreadOf(runs[c].thread_id))
    /\ session_threads' = IF runs[c].stale THEN session_threads
                          ELSE session_threads \cup {runs[c].thread_id}
    /\ runs' = [runs EXCEPT ![c] = IdleRun]
    /\ UNCHANGED <<refactor_thread_id, next_uuid, sessFrame>>

project_run_agent(c) == AgentRunRead(c) \/ AgentRunStore(c) \/ AgentRunPost(c)

\* dependencies/auth.py 88 and routers/agent.py 267-275: resume_agent_run
\* reads the project and takes its refactor_thread_id
ResumeRunRead(c, run_id) ==
    /\ RunCanStart(c)
    /\ IF refactor_thread_id = 0
       THEN /\ Respond("agent_resume", run_id, 400)
            /\ UNCHANGED runs
       ELSE /\ runs' = [runs EXCEPT ![c] = [IdleRun EXCEPT !.op = "resume", !.pc = "post",
                                                            !.thread_id = refactor_thread_id,
                                                            !.run_id = run_id]]
            /\ UNCHANGED response
    /\ UNCHANGED <<tasks, epc, refactor_thread_id, next_uuid, session_threads, sessFrame>>

\* routers/agent.py 277-304: the POST to /run of the task server
ResumeRunPost(c) ==
    /\ runs[c].op = "resume" /\ runs[c].pc = "post"
    /\ post_run("agent_resume", ThreadOf(runs[c].thread_id))
    /\ runs' = [runs EXCEPT ![c] = IdleRun]
    /\ UNCHANGED <<refactor_thread_id, next_uuid, session_threads, sessFrame>>

resume_agent_run(c) == (\E run_id \in TaskIds : ResumeRunRead(c, run_id)) \/ ResumeRunPost(c)

\* dependencies/auth.py 88 and routers/agent.py 323-329: reset-session reads
\* the project and returns when it has no refactor_thread_id
ResetRead(c) ==
    /\ RunCanStart(c)
    /\ IF refactor_thread_id = 0
       THEN /\ Respond("reset_session", 0, 200)
            /\ UNCHANGED runs
       ELSE /\ runs' = [runs EXCEPT ![c] = [IdleRun EXCEPT !.op = "reset", !.pc = "clear"]]
            /\ UNCHANGED response
    /\ UNCHANGED <<tasks, epc, refactor_thread_id, next_uuid, session_threads, sessFrame>>

\* routers/agent.py 332: update_project(project_id, {"refactor_thread_id": None})
ResetClear(c) ==
    /\ runs[c].op = "reset" /\ runs[c].pc = "clear"
    /\ refactor_thread_id' = 0
    /\ session_threads' = {}
    /\ runs' = [d \in RunIds |-> IF d = c THEN IdleRun
                                 ELSE IF runs[d].op = "idle" THEN runs[d]
                                 ELSE [runs[d] EXCEPT !.stale = TRUE]]
    /\ Respond("reset_session", 0, 200)
    /\ UNCHANGED <<tasks, epc, next_uuid, sessFrame>>

reset_refactor_session(c) == ResetRead(c) \/ ResetClear(c)

\* The backend in front of a task server: the project is READY, its
\* container runs (a state of SpecProject), the task server has no task.
InitSession ==
    /\ tasks = EmptyDict
    /\ task_logs = EmptyDict
    /\ stop_flags = EmptyDict
    /\ refactor_agents = EmptyDict
    /\ chat_agents = EmptyDict
    /\ agent_objs = EmptyDict
    /\ postgres_url \in BOOLEAN
    /\ epc = [t \in TaskIds |-> "none"]
    /\ eagent = [t \in TaskIds |-> 0]
    /\ nevents = [t \in TaskIds |-> 0]
    /\ nchunks = [t \in TaskIds |-> 0]
    /\ log_obj = [t \in TaskIds |-> 0]
    /\ old_logs = [t \in TaskIds |-> <<>>]
    /\ appended = [t \in TaskIds |-> <<>>]
    /\ stopreq = Idle
    /\ nstops = 0
    /\ stop_accepted = {}
    /\ stop_pending = {}
    /\ streams = [s \in StreamIds |-> Closed]
    /\ loop = Free
    /\ response = [op |-> "none", task_id |-> 0, code |-> 0]
    /\ projects = Put(EmptyDict, ProjectId,
                      [NewProject("REFACTOR") EXCEPT !.status = "READY", !.container_id = 1])
    /\ containers = Put(EmptyDict, 1, "running")
    /\ next_container = 2
    /\ calls = [c \in CallIds |-> IdleCall]
    /\ returned = [op |-> "provision", result |-> "returned"]
    /\ docker_status = NoDockerStatus
    /\ refactor_thread_id = 0
    /\ next_uuid = 1
    /\ runs = [c \in RunIds |-> IdleRun]
    /\ session_threads = {}
    /\ Quiet

NextSession ==
    \/ \E c \in RunIds : project_run_agent(c)
    \/ \E c \in RunIds : resume_agent_run(c)
    \/ \E c \in RunIds : reset_refactor_session(c)
    \/ \E t \in TaskIds : execute(t)

SpecSession == InitSession /\ [][NextSession]_vars

\* ------------------------------------------- chat messages (routers/chat.py)
\* The thread_id f"chat-{project_id}-{uuid4}" as the task server gets it.
ChatThreadOf(n) == [src |-> "chat", n |-> n]

\* the thread_id of the request body: 0 when it has none
RequestThreads == {0, 1}

chatFrame == <<task_logs, appended, stop_flags, registryVars, eagent, nevents, nchunks,
               log_obj, old_logs, stopreq, nstops, stop_accepted, stop_pending, streams,
               loop, projects, containers, next_container, calls, returned, docker_status,
               relayVars, svcVars, refactor_thread_id, session_threads>>

\* dependencies/auth.py 88 and routers/chat.py 105-113: the project is read,
\* its status checked, and the thread_id of the request taken or generated
ChatRead(c, thread_id) ==
    /\ RunCanStart(c)
    /\ IF NotReady(get_project_by_id)
       THEN /\ Respond("send_chat", 0, 400)
            /\ UNCHANGED <<runs, next_uuid>>
       ELSE IF thread_id = 0
       THEN /\ next_uuid <= MaxUuids
            /\ next_uuid' = next_uuid + 1
            /\ runs' = [runs EXCEPT ![c] = [IdleRun EXCEPT !.op = "chat", !.pc = "post",
                                                            !.thread_id = next_uuid]]
            /\ UNCHANGED response
       ELSE /\ runs' = [runs EXCEPT ![c] = [IdleRun EXCEPT !.op = "chat", !.pc = "post",
                                                            !.thread_id = thread_id]]
            /\ UNCHANGED <<response, next_uuid>>
    /\ UNCHANGED <<tasks, epc, chat_sessions, chatFrame>>

\* routers/chat.py 122-135 and app.py 47-84: the POST to /chat of the task
\* server
ChatPost(c) ==
    /\ runs[c].op = "chat" /\ runs[c].pc = "post"
    /\ loop = Free
    /\ NextTaskId <= MaxTasks
    /\ tasks' = Put(tasks, NextTaskId,
                    NewTask(NextTaskId, ChatThreadOf(runs[c].thread_id), "chat", None, 0))
    /\ Schedule(NextTaskId)
    /\ runs' = [runs EXCEPT ![c].pc = "upsert", ![c].run_id = NextTaskId]
    /\ UNCHANGED <<response, next_uuid, chat_sessions, chatFrame>>

\* routers/chat.py 151-153: the POST raises httpx.HTTPError: 503
ChatPostFails(c) ==
    /\ runs[c].op = "chat" /\ runs[c].pc = "post"
    /\ Respond("send_chat", 0, 503)
    /\ runs' = [runs EXCEPT ![c] = IdleRun]
    /\ UNCHANGED <<tasks, epc, next_uuid, chat_sessions, chatFrame>>

\* routers/chat.py 141-149: upsert_session and the response
ChatUpsert(c) ==
    /\ runs[c].op = "chat" /\ runs[c].pc = "upsert"
    /\ chat_sessions' = chat_sessions \cup {runs[c].thread_id}
    /\ Respond("send_chat", runs[c].run_id, 200)
    /\ runs' = [runs EXCEPT ![c] = IdleRun]
    /\ UNCHANGED <<tasks, epc, next_uuid, chatFrame>>

send_chat_message(c) ==
    \/ \E thread_id \in RequestThreads : ChatRead(c, thread_id)
    \/ ChatPost(c)
    \/ ChatPostFails(c)
    \/ ChatUpsert(c)

\* The backend in front of a task server that has no task, for a project in
\* any status: its container exists while it is READY or STOPPED.
GuardStatuses == {"CREATED", "PROVISIONING", "READY", "STOPPED", "FAILED"}

InitGuard ==
    /\ tasks = EmptyDict
    /\ task_logs = EmptyDict
    /\ stop_flags = EmptyDict
    /\ refactor_agents = EmptyDict
    /\ chat_agents = EmptyDict
    /\ agent_objs = EmptyDict
    /\ postgres_url \in BOOLEAN
    /\ epc = [t \in TaskIds |-> "none"]
    /\ eagent = [t \in TaskIds |-> 0]
    /\ nevents = [t \in TaskIds |-> 0]
    /\ nchunks = [t \in TaskIds |-> 0]
    /\ log_obj = [t \in TaskIds |-> 0]
    /\ old_logs = [t \in TaskIds |-> <<>>]
    /\ appended = [t \in TaskIds |-> <<>>]
    /\ stopreq = Idle
    /\ nstops = 0
    /\ stop_accepted = {}
    /\ stop_pending = {}
    /\ streams = [s \in StreamIds |-> Closed]
    /\ loop = Free
    /\ response = [op |-> "none", task_id |-> 0, code |-> 0]
    /\ \E status \in GuardStatuses :
          LET held == status \in {"READY", "STOPPED"}
          IN  /\ projects = Put(EmptyDict, ProjectId,
                                [NewProject("REFACTOR") EXCEPT
                                     !.status = status,
                                     !.container_id = IF held THEN 1 ELSE NoContainer,
                                     !.last_error = IF status = "FAILED" THEN "error" ELSE None])
              /\ containers = IF held
                              THEN Put(EmptyDict, 1,
                                       IF status = "READY" THEN "running" ELSE "exited")
                              ELSE EmptyDict
              /\ next_container = IF status \in {"CREATED", "PROVISIONING"} THEN 1 ELSE 2
    /\ calls = [c \in CallIds |-> IdleCall]
    /\ returned = NoCall
    /\ docker_status = NoDockerStatus
    /\ refactor_thread_id = 0
    /\ next_uuid = 1
    /\ runs = [c \in RunIds |-> IdleRun]
    /\ session_threads = {}
    /\ Quiet

NextGuard ==
    \/ \E c \in RunIds : project_run_agent(c)
    \/ \E c \in RunIds : send_chat_message(c)

SpecGuard == InitGuard /\ [][NextGuard]_vars

\* handlers.py 36 on a pool of PoolWorkers threads
ExecInitLogsPool(t) ==
    /\ epc[t] = "init_logs"
    /\ Cardinality(Running) < PoolWorkers
    /\ task_logs' = Put(task_logs, t, <<>>)
    /\ old_logs' = [old_logs EXCEPT ![t] = Get(task_logs, t, <<>>)]
    /\ log_obj' = [log_obj EXCEPT ![t] = 1]
    /\ Goto(t, "init_flag")
    /\ UNCHANGED <<tasks, stop_flags, appended, postgres_url, agentVars, runVars, handlerVars, projVars>>

executePool(t) ==
    /\ t \in DOMAIN tasks
    /\ ExecInitLogsPool(t) \/ (epc[t] # "init_logs" /\ execute(t))

\* The task server alone, its background tasks on a pool of PoolWorkers
\* threads.
NextPool ==
    \/ \E has_thread_id \in BOOLEAN : run_agent(has_thread_id)
    \/ chat
    \/ \E t \in TaskIds : executePool(t)

SpecPool == Init /\ [][NextPool]_vars

\* The task server with stop requests: runs submitted on one thread_id, the
\* stop handler, and the background tasks on a pool of PoolWorkers threads.
NextStopPool ==
    \/ run_agent(TRUE)
    \/ \E t \in TaskIds : StopTaskCheck(t)
    \/ StopTaskSetFlag
    \/ StopTaskLog
    \/ \E t \in TaskIds : executePool(t)

SpecStopPool == Init /\ [][NextStopPool]_vars

\* The task server from the start of an agent run: task 1 was submitted with
\* POST /run, its executor has created the agent of its thread and is at
\* agent.run (handlers.py 124).  A client opens the stream of the task at any
\* time, and the task may be stopped.
RunLog ==
    <<"start", "postgres", "init LLM", "LLM ready", "create agent", "agent created",
      "run agent">>

RunEntry(i) == [timestamp |-> i, kind |-> "log", text |-> RunLog[i]]

InitLive ==
    /\ tasks = Put(EmptyDict, 1,
                   [NewTask(1, DefaultThread(1), "run", "spec", 0)
                       EXCEPT !.status = RUNNING, !.started_at = "now"])
    /\ task_logs = Put(EmptyDict, 1, [i \in 1 .. Len(RunLog) |-> RunEntry(i)])
    /\ appended = [t \in TaskIds |->
                     IF t = 1
                     THEN [i \in 1 .. Len(RunLog) |-> [entry |-> RunEntry(i), nonterminal |-> TRUE]]
                     ELSE <<>>]
    /\ stop_flags = Put(EmptyDict, 1, FALSE)
    /\ refactor_agents = Put(EmptyDict, DefaultThread(1), 1)
    /\ chat_agents = EmptyDict
    /\ agent_objs = Put(EmptyDict, 1, 1)
    /\ postgres_url = TRUE
    /\ epc = [t \in TaskIds |-> IF t = 1 THEN "run_chunk" ELSE "none"]
    /\ eagent = [t \in TaskIds |-> IF t = 1 THEN 1 ELSE 0]
    /\ nevents = [t \in TaskIds |-> 0]
    /\ nchunks = [t \in TaskIds |-> 0]
    /\ log_obj = [t \in TaskIds |-> IF t = 1 THEN 1 ELSE 0]
    /\ old_logs = [t \in TaskIds |-> <<>>]
    /\ stopreq = Idle
    /\ nstops = 0
    /\ stop_accepted = {}
    /\ stop_pending = {}
    /\ streams = [s \in StreamIds |-> Closed]
    /\ loop = Free
    /\ response = [op |-> "run", task_id |-> 1, code |-> 200]
    /\ projects = EmptyDict
    /\ containers = EmptyDict
    /\ next_container = 1
    /\ calls = [c \in CallIds |-> IdleCall]
    /\ returned = NoCall
    /\ docker_status = NoDockerStatus
    /\ refactor_thread_id = 0
    /\ next_uuid = 1
    /\ runs = [c \in RunIds |-> IdleRun]
    /\ session_threads = {}
    /\ Quiet

NextLive ==
    \/ StopTaskCheck(1)
    \/ StopTaskSetFlag
    \/ StopTaskLog
    \/ execute(1)
    \/ \E s \in StreamIds : stream_task_logs(s, 1)
    \/ \E s \in StreamIds : event_generator(s)

\* The executor runs in a thread of the pool and is scheduled by the
\* operating system; stop_task holds the event loop until it returns; the
\* generator is resumed by the event loop after each sleep and each event
\* its client takes.
Fairness ==
    /\ WF_vars(execute(1))
    /\ \A s \in StreamIds : WF_vars(event_generator(s))
    /\ WF_vars(StopTaskSetFlag)
    /\ WF_vars(StopTaskLog)

SpecLive == InitLive /\ [][NextLive]_vars /\ Fairness

\* The provisioning of the project: two connections send provision requests
\* and updates whose body names a status (schemas/project.py 43-52 accepts
\* every ProjectStatus).  A request that has started is carried on by the
\* event loop until it returns; no client has to send another request.
StatusRequests == {[NoRequest EXCEPT !.status = status] : status \in GuardStatuses}

set_status(c) ==
    \/ \E request \in StatusRequests : UpdateGet(c, request)
    \/ UpdateOne(c)

NextProvision ==
    \/ \E project_type \in {"REFACTOR", "SANDBOX"} : create_project(project_type)
    \/ \E c \in CallIds : provision_project(c)
    \/ \E c \in CallIds : set_status(c)

FairCalls ==
    \A c \in CallIds :
        /\ WF_vars(calls[c].op = "provision" /\ provision_project(c))
        /\ WF_vars(calls[c].op = "update" /\ UpdateOne(c))

SpecProvision == InitProject /\ [][NextProvision]_vars /\ FairCalls

\* An agent run whose chunk holds up to EventsPerChunk events: the task
\* server from the start of the run of task 1, with the stop handler.
\* deep_agent.py 343: parser.parse(chunk)
AgentParseMany(t) ==
    /\ epc[t] = "parse"
    /\ \/ /\ nevents[t] < EventsPerChunk
          /\ nevents' = [nevents EXCEPT ![t] = @ + 1]
          /\ Goto(t, "cb_check")
       \/ /\ Goto(t, "run_chunk")
          /\ UNCHANGED nevents
    /\ UNCHANGED <<tasks, stop_flags, logVars, log_obj, old_logs, postgres_url, agentVars, nchunks, handlerVars, projVars>>

executeMany(t) ==
    /\ t \in DOMAIN tasks
    /\ AgentParseMany(t) \/ (epc[t] # "parse" /\ execute(t))

NextEvents ==
    \/ StopTaskCheck(1)
    \/ StopTaskSetFlag
    \/ StopTaskLog
    \/ executeMany(1)

SpecEvents ==
    /\ InitLive
    /\ [][NextEvents]_vars
    /\ WF_vars(executeMany(1))
    /\ WF_vars(StopTaskSetFlag)
    /\ WF_vars(StopTaskLog)

\* ------------------------------------------------------- stream forwarding
\* A client opens one of the two streams; the task server answers with any
\* text of at most MaxLines lines.
InitRelay ==
    /\ Installed
    /\ upstream \in SeqsUpTo(SourceLines, MaxLines)
    /\ received = 0
    /\ emitted = <<>>
    /\ relay_pc \in {[NoRelay EXCEPT !.endpoint = endpoint, !.at = "open"] :
                       endpoint \in Endpoints}
    /\ svc_call = NoSvcCall
    /\ commands = <<>>
    /\ svc_raised = NotRaised
    /\ chat_sessions = {}

NextRelay ==
    \/ stream_agent_logs
    \/ stream_chat_response

SpecRelay == InitRelay /\ [][NextRelay]_vars

\* ------------------------------------------------------- container service
\* One call of the container service with any arguments of the bounded sets:
\* a clone with one argument of any text and the other one well formed, a
\* file operation on any path, a well formed clone or a command with one of
\* the two timeouts (120 is the default of clone_repository, 300 the one of
\* exec_command).
GoodUrl == <<"https://", "a">>

GoodBranch == <<"main">>

SvcCalls ==
    {[NoSvcCall EXCEPT !.op = "clone_repository", !.pc = "sanitize", !.repo_url = text,
                       !.branch = GoodBranch, !.timeout = 120] :
        text \in SeqsUpTo(CloneChars, MaxText)}
    \cup {[NoSvcCall EXCEPT !.op = "clone_repository", !.pc = "sanitize", !.repo_url = GoodUrl,
                            !.branch = text, !.timeout = 120] :
            text \in SeqsUpTo(CloneChars, MaxText)}
    \cup {[NoSvcCall EXCEPT !.op = "clone_repository", !.pc = "sanitize", !.repo_url = GoodUrl,
                            !.branch = GoodBranch, !.timeout = timeout] : timeout \in Timeouts}
    \cup {[NoSvcCall EXCEPT !.op = "read_file", !.pc = "sanitize", !.path = text] :
            text \in SeqsUpTo(PathChars, MaxPath)}
    \cup {[NoSvcCall EXCEPT !.op = "list_files", !.pc = "run", !.path = text] :
            text \in SeqsUpTo(PathChars, MaxPath)}
    \cup {[NoSvcCall EXCEPT !.op = "exec_command", !.pc = "run", !.path = <<"sleep 100">>,
                            !.timeout = timeout] : timeout \in Timeouts}

InitService ==
    /\ Installed
    /\ postgres_url
    /\ upstream = <<>>
    /\ received = 0
    /\ emitted = <<>>
    /\ relay_pc = NoRelay
    /\ svc_call \in SvcCalls
    /\ commands = <<>>
    /\ svc_raised = NotRaised
    /\ chat_sessions = {}

NextService ==
    \/ clone_repository
    \/ exec_command
    \/ list_files
    \/ read_file

SpecService == InitService /\ [][NextService]_vars

\* ------------------------------------------------------------------ claims
\* C1: in every reachable state of a project record, after any sequence of
\* create, update, provision, stop and delete calls, a non-null container_id
\* implies that the status is one of READY, RUNNING, STOPPED, FAILED.
C1_ContainerImpliesProvisioned ==
    \A p \in DOMAIN projects :
        projects[p].container_id # NoContainer
            => projects[p].status \in {"READY", "RUNNING", "STOPPED", "FAILED"}

\* C2: a task for which a stop request was accepted while its status was
\* PENDING never enters RUNNING: its status stays PENDING until it is STOPPED.
C2_StopPendingNeverRuns ==
    \A t \in stop_pending : tasks[t].status \in {PENDING, STOPPED}

\* The entries of the task's list that the generator has not passed.
Undelivered(s) ==
    LET t == streams[s].task_id
        logs == Get(task_logs, t, <<>>)
    IN {i \in 1 .. Len(logs) : logs[i].timestamp > streams[s].last_src}

\* C3: a stream emits the entries appended while the task was not terminal
\* once each and in append order: it never passes over an entry of the
\* task's list, never emits an entry at or before the one it emitted last,
\* and when it has closed none of these entries is left unsent.
C3_ExactlyOnceInOrder ==
    \A s \in StreamIds :
        LET st == streams[s]
            t == st.task_id
        IN st.pc # "closed"
              => /\ ~st.missed_kept
                 /\ ~st.disorder
                 /\ st.pc = "done"
                       => \A i \in Undelivered(s) :
                              ~appended[t][task_logs[t][i].timestamp].nonterminal

\* C4: when a stream has closed, the task's log holds no entry that the
\* stream did not deliver before its status event.
C4_StatusAfterAllEntries ==
    \A s \in StreamIds :
        streams[s].pc = "done" => Undelivered(s) = {} /\ ~streams[s].missed_kept

\* C5: a stream closes only after it has observed a terminal status of its
\* task; it emits exactly one status event, which is its last event, and
\* no status event before it closes.
C5_StreamClosesOnTerminal ==
    \A s \in StreamIds :
        LET st == streams[s] IN
        IF st.pc = "done"
        THEN /\ st.nstatus = 1
             /\ st.last_event = "status"
             /\ st.status_event.status \in finished_statuses
             /\ tasks[st.task_id].status = st.status_event.status
        ELSE st.nstatus = 0 /\ st.status_event = NoStatusEvent

\* C5: a stream has sent the entries of a task that ran and was stopped,
\* then the status event, and has closed.
C5_Witness ==
    \E s \in StreamIds :
        /\ streams[s].pc = "done"
        /\ streams[s].task_id > 1
        /\ streams[s].last_src > 0
        /\ streams[s].status_event.status = STOPPED

StatusEdges ==
    {<<PENDING, RUNNING>>, <<RUNNING, SUCCESS>>, <<RUNNING, FAILED>>,
     <<RUNNING, STOPPED>>, <<PENDING, STOPPED>>}

\* C6: a task's status changes only along PENDING->RUNNING, RUNNING->SUCCESS,
\* RUNNING->FAILED, RUNNING->STOPPED and PENDING->STOPPED; a status of
\* SUCCESS, FAILED or STOPPED never changes.
C6_TaskStatusEdges ==
    [][\A t \in DOMAIN tasks :
          tasks'[t].status # tasks[t].status
              => <<tasks[t].status, tasks'[t].status>> \in StatusEdges]_vars

\* C6: a task was stopped while it ran, was resumed, and the task that
\* resumed it ran to SUCCESS.
C6_Witness ==
    \E t, u \in DOMAIN tasks :
        /\ tasks[t].status = STOPPED
        /\ t \in stop_accepted
        /\ tasks[u].resumed_from = t
        /\ tasks[u].status = SUCCESS

\* C7: when the executor of a task has returned, the registry holds no stop
\* flag for the task.
C7_NoStopFlagAfterFinish ==
    \A t \in DOMAIN tasks : epc[t] = "done" => t \notin DOMAIN stop_flags

\* C8: when a provision call that passed the guard completes, the persisted
\* status is READY with a non-null container_id if it returned, FAILED with
\* a non-null last_error if it raised.
C8_ProvisionOutcome ==
    [][\A c \in CallIds :
          calls[c].op = "provision" /\ calls'[c].op = "idle"
              => LET project == Get(projects', ProjectId, NoProject) IN
                 IF calls[c].pc = "set_failed"
                 THEN project.status = "FAILED" /\ project.last_error # None
                 ELSE project.status = "READY" /\ project.container_id # NoContainer]_vars

\* C9: whenever no provision call is in progress, every container that
\* provision created and that still exists in the runtime is the
\* container_id of the project's record.
C9_NoAbandonedContainer ==
    (\A c \in CallIds : calls[c].op # "provision")
        => \A cid \in provisioned \cap DOMAIN containers :
              /\ ProjectId \in DOMAIN projects
              /\ projects[ProjectId].container_id = cid

LifecycleEdges ==
    {<<"CREATED", "PROVISIONING">>, <<"PROVISIONING", "READY">>,
     <<"PROVISIONING", "FAILED">>, <<"READY", "STOPPED">>, <<"READY", "FAILED">>,
     <<"STOPPED", "PROVISIONING">>, <<"FAILED", "PROVISIONING">>}

\* C10: every change of the persisted status follows an edge of the
\* lifecycle, and the record is removed only from READY, STOPPED or FAILED.
C10_LifecycleEdges ==
    [][\A p \in DOMAIN projects :
          IF p \in DOMAIN projects'
          THEN projects'[p].status # projects[p].status
                  => <<projects[p].status, projects'[p].status>> \in LifecycleEdges
          ELSE projects[p].status \in {"READY", "STOPPED", "FAILED"}]_vars

\* C11: a provision call on a project whose status is not CREATED, STOPPED
\* or FAILED never gets past the guard, and the step that rejects it leaves
\* the project record and the containers of the runtime as they were.
C11_ProvisionRejected ==
    [][/\ \A c \in CallIds :
             calls[c].op = "idle" /\ calls'[c].op = "provision"
                 => get_project_by_id.status \in {"CREATED", "STOPPED", "FAILED"}
       /\ (calls' = calls /\ returned' = [op |-> "provision", result |-> "rejected"])
             => /\ get_project_by_id.status \in {"PROVISIONING", "READY", "RUNNING", "DELETED"}
                /\ projects' = projects
                /\ containers' = containers
                /\ next_container' = next_container]_vars

\* C11: a provision call on a READY project whose container runs has been
\* rejected.
C11_Witness ==
    /\ returned = [op |-> "provision", result |-> "rejected"]
    /\ get_project_by_id.status = "READY"
    /\ get_project_by_id.container_id \in DOMAIN containers
    /\ containers[get_project_by_id.container_id] = "running"

\* A step of the read with observed status that connection c makes.
DockerStatusStep(c) ==
    \/ calls[c].op = "idle" /\ calls'[c].op = "get"
    \/ calls[c].op = "get" /\ calls'[c].op = "idle"
    \/ calls[c].op = "idle" /\ calls' = calls /\ returned'.op = "get"

\* C12: a read with observed status of a project whose container_id names a
\* container that the runtime does not have returns docker_status
\* {status: not_found, inconsistent: true} as data, and no step of such a
\* read changes the persisted record or the runtime.
C12_MissingContainerReported ==
    [][\A c \in CallIds :
          /\ DockerStatusStep(c) => projects' = projects /\ containers' = containers
          /\ (At(c, "get", "inspect") /\ calls'[c].op = "idle"
                /\ returned'.result # "unavailable"
                /\ calls[c].container_id \notin DOMAIN containers)
                => /\ returned' = [op |-> "get", result |-> "returned"]
                   /\ docker_status' = [status |-> "not_found", inconsistent |-> TRUE]]_vars

\* C12: a read has reported the container of a READY project as missing,
\* and the record still names that container.
C12_Witness ==
    /\ returned = [op |-> "get", result |-> "returned"]
    /\ docker_status = [status |-> "not_found", inconsistent |-> TRUE]
    /\ get_project_by_id.status = "READY"
    /\ get_project_by_id.container_id # NoContainer
    /\ get_project_by_id.container_id \notin DOMAIN containers

IsPrefix(s, t) == Len(s) <= Len(t) /\ SubSeq(t, 1, Len(s)) = s

\* C13: the log of a task only grows by appending at its end: from the first
\* entry written under the task_id, the log in a state is a prefix of the
\* log in the next state.
C13_LogOnlyGrows ==
    [][\A t \in DOMAIN task_logs :
          t \in DOMAIN task_logs' /\ IsPrefix(task_logs[t], task_logs'[t])]_vars

\* C14: a stop request for a task whose status is SUCCESS, FAILED or STOPPED
\* is answered with 400 and its handler goes no further: no stop flag is
\* set, no log entry is appended and no status changes.
C14_StopOfFinishedRejected ==
    [][nstops' = nstops + 1 =>
          \/ /\ stopreq'.pc = "set_flag"
             /\ tasks[stopreq'.task_id].status \notin finished_statuses
          \/ /\ response'.op = "stop"
             /\ response'.task_id \in DOMAIN tasks
                   => /\ tasks[response'.task_id].status \in finished_statuses
                      /\ response'.code = 400
             /\ stopreq' = Idle
             /\ loop' = Free
             /\ stop_flags' = stop_flags
             /\ task_logs' = task_logs
             /\ tasks' = tasks]_vars

\* C14: the stop of a task that had succeeded was answered with 400, and the
\* task has no stop flag and no entry of the stop handler in its log.
C14_Witness ==
    /\ response.op = "stop"
    /\ response.code = 400
    /\ response.task_id \in DOMAIN tasks
    /\ tasks[response.task_id].status = SUCCESS
    /\ response.task_id \notin DOMAIN stop_flags
    /\ \A i \in 1 .. Len(task_logs[response.task_id]) :
          task_logs[response.task_id][i].text # "stop signal received"

\* C15: a resume of a task creates a new task only when that task's status
\* is STOPPED or FAILED, on the task server's endpoint and on the project's
\* resume endpoint in front of it.
C15_ResumeOnlyStoppedOrFailed ==
    [][/\ \A t \in DOMAIN tasks' \ DOMAIN tasks :
             tasks'[t].resumed_from # 0
                 => tasks[tasks'[t].resumed_from].status \in {STOPPED, FAILED}
       /\ \A c \in RunIds :
             (/\ runs[c].op = "resume"
              /\ runs'[c].op = "idle"
              /\ DOMAIN tasks' # DOMAIN tasks
              /\ runs[c].run_id \in DOMAIN tasks)
                 => tasks[runs[c].run_id].status \in {STOPPED, FAILED}]_vars

\* C19: the agent runs started for a project since the last reset of its
\* session have all been submitted to the task server with one thread_id.
C19_OneThreadPerSession == Cardinality(session_threads) <= 1

\* C16: an accepted resume creates a task in PENDING under a new task_id,
\* with the thread_id and the spec of the resumed task; the resumed task's
\* record stays as it was, and no step removes a task record.
C16_ResumeCopiesThreadAndSpec ==
    [][/\ DOMAIN tasks \subseteq DOMAIN tasks'
       /\ \A n \in DOMAIN tasks' \ DOMAIN tasks :
             tasks'[n].resumed_from # 0 =>
                 LET old == tasks'[n].resumed_from IN
                 /\ tasks'[n].status = PENDING
                 /\ tasks'[n].thread_id = tasks[old].thread_id
                 /\ tasks'[n].spec = tasks[old].spec
                 /\ tasks'[old] = tasks[old]]_vars

\* The positions of the executor's "except Exception" block and of the
\* finally block behind it.
ExceptionPositions == {"exc_log", "exc_log_tb", "exc_status", "exc_error", "exc_finished", "finally"}

\* C17: the steps that handle an exception of one task leave the record, the
\* log and the stop flag of every other task and the request handlers as
\* they were, and when the handling ends the task is FAILED with its
\* error_message set and the error and the trace in its log.
C17_ExceptionStaysInTask ==
    [][\A t \in DOMAIN tasks :
          (epc[t] \in ExceptionPositions /\ epc'[t] # epc[t]) =>
              /\ \A u \in DOMAIN tasks \ {t} :
                    /\ tasks'[u] = tasks[u]
                    /\ (u \in DOMAIN task_logs') = (u \in DOMAIN task_logs)
                    /\ Get(task_logs', u, <<>>) = Get(task_logs, u, <<>>)
                    /\ (u \in DOMAIN stop_flags') = (u \in DOMAIN stop_flags)
                    /\ Get(stop_flags', u, FALSE) = Get(stop_flags, u, FALSE)
              /\ UNCHANGED <<stopreq, loop, streams, response>>
              /\ epc[t] = "exc_finished" =>
                    /\ tasks'[t].status = FAILED
                    /\ tasks'[t].error_message = "execution failed"
                    /\ \E i, j \in 1 .. Len(task_logs'[t]) :
                          /\ i < j
                          /\ task_logs'[t][i].text = "error"
                          /\ task_logs'[t][j].text = "Traceback"]_vars

\* C17: the executor of task 1 raised and has returned, task 1 is FAILED,
\* and task 2, whose stop was accepted meanwhile, is still PENDING with its
\* stop flag and its log.
C17_Witness ==
    /\ 1 \in DOMAIN tasks /\ 2 \in DOMAIN tasks
    /\ epc[1] = "done"
    /\ tasks[1].status = FAILED
    /\ tasks[1].error_message = "execution failed"
    /\ tasks[2].status = PENDING
    /\ Get(stop_flags, 2, FALSE)
    /\ Len(Get(task_logs, 2, <<>>)) = 1
    /\ response = [op |-> "stop", task_id |-> 2, code |-> 200]

\* The agent instances created for the tasks of one kind and thread_id.
InstancesOf(kind, thread_id) ==
    {a \in DOMAIN agent_objs : tasks[a].kind = kind /\ tasks[a].thread_id = thread_id}

\* C18: for each thread_id at most one agent instance is created, every
\* task of the thread runs on it, and when a task takes the instance to run
\* on it, the instance's stop check reads that task's own stop flag.
C18_OneInstancePerThread ==
    /\ [](\A t, u \in DOMAIN tasks :
             /\ Cardinality(InstancesOf(tasks[t].kind, tasks[t].thread_id)) <= 1
             /\ (/\ tasks[t].kind = tasks[u].kind
                 /\ tasks[t].thread_id = tasks[u].thread_id
                 /\ eagent[t] # 0 /\ eagent[u] # 0)
                    => eagent[t] = eagent[u])
    /\ [][\A t \in DOMAIN tasks :
             (epc[t] = "get_agent" /\ epc'[t] = "log_run")
                 => agent_objs'[eagent'[t]] = t]_vars

\* C20: a stop_project call on a project that has a container_id never ends
\* without writing the status: STOPPED when the container was stopped or was
\* absent, FAILED with last_error when the runtime call failed.
C20_StopAlwaysWritesStatus ==
    [][/\ (calls' = calls /\ returned'.op = "stop")
             => \/ ~Found(get_project_by_id)
                \/ get_project_by_id.container_id = NoContainer
       /\ \A c \in CallIds :
             /\ (At(c, "stop", "stop_container") /\ calls'[c] # calls[c])
                   => /\ calls'[c].op = "stop"
                      /\ calls'[c].pc = IF calls'[c].error = None THEN "set_stopped"
                                                                  ELSE "set_failed"
             /\ (At(c, "stop", "set_stopped") /\ calls'[c] # calls[c] /\ Found(get_project_by_id))
                   => projects'[ProjectId].status = "STOPPED"
             /\ (At(c, "stop", "set_failed") /\ calls'[c] # calls[c] /\ Found(get_project_by_id))
                   => /\ projects'[ProjectId].status = "FAILED"
                      /\ projects'[ProjectId].last_error = "stop failed"]_vars

\* C21: a delete_project call on an existing project never ends without
\* removing the record, whether the removal of its container succeeds,
\* fails or finds no container, and once a delete has returned the record
\* stays absent.
C21_DeleteRemovesRecord ==
    /\ [](returned = [op |-> "delete", result |-> "deleted"] => ~Found(get_project_by_id))
    /\ [][/\ (calls' = calls /\ returned'.op = "delete") => ~Found(get_project_by_id)
          /\ \A c \in CallIds :
                /\ (At(c, "delete", "remove_container") /\ calls'[c] # calls[c])
                      => calls'[c].op = "delete" /\ calls'[c].pc = "delete_one"
                /\ (At(c, "delete", "delete_one") /\ calls'[c] # calls[c])
                      => ProjectId \notin DOMAIN projects']_vars

\* The identifiers a record or a request may hold for a container.
ContainerRefs == (1 .. MaxContainers) \cup {ForeignContainer}

\* In a state: for every container the runtime lacks, the answer "No such
\* container" raises in neither function and leaves the runtime as it is.
AbsentBenign ==
    \A cid \in ContainerRefs \ DOMAIN containers :
        /\ "No such container" \in DockerAnswers(cid)
        /\ stop_container("No such container") # "raised"
        /\ remove_container("No such container") # "raised"
        /\ AfterStop(containers, cid, stop_container("No such container")) = containers
        /\ AfterRemove(containers, cid, remove_container("No such container")) = containers

\* C22: stop_container and remove_container for a container the runtime
\* does not have do not raise and leave the runtime as it is, in every
\* state and so for each of any number of calls in a row; a request's stop
\* or removal of such a container changes no container.
C22_AbsentContainerBenign ==
    [][/\ AbsentBenign
       /\ AbsentBenign'
       /\ \A c \in CallIds :
             (/\ calls[c].pc \in {"stop_container", "remove_container", "clean"}
              /\ calls'[c] # calls[c]
              /\ calls[c].container_id \notin DOMAIN containers)
                 => containers' = containers]_vars

\* C22: a stop request has stopped a container that the runtime does not
\* have without raising, and goes on to write STOPPED.
C22_Witness ==
    \E c \in CallIds :
        /\ At(c, "stop", "set_stopped")
        /\ Found(get_project_by_id)
        /\ get_project_by_id.container_id # NoContainer
        /\ get_project_by_id.container_id \notin DOMAIN containers

\* C23: while the status of a project is not CREATED, no step changes its
\* repo_url.
C23_RepoUrlFrozen ==
    [][(/\ Found(get_project_by_id)
        /\ get_project_by_id.status # "CREATED"
        /\ ProjectId \in DOMAIN projects')
           => projects'[ProjectId].repo_url = projects[ProjectId].repo_url]_vars

\* C24: a step of an update request changes neither the status nor the
\* container_id of the project.
C24_UpdateKeepsStatusAndContainer ==
    [][\A c \in CallIds :
          (/\ calls[c].op = "update"
           /\ calls'[c] # calls[c]
           /\ Found(get_project_by_id)
           /\ ProjectId \in DOMAIN projects')
              => /\ projects'[ProjectId].status = projects[ProjectId].status
                 /\ projects'[ProjectId].container_id = projects[ProjectId].container_id]_vars

\* the lines of a text: each ends at a line feed, the last one may lack it
RECURSIVE SplitLines(_)
SplitLines(text) ==
    IF text = <<>> THEN <<>>
    ELSE LET k == CHOOSE i \in 1 .. Len(text) + 1 :
                     /\ i = Len(text) + 1 \/ text[i] = LF
                     /\ \A j \in 1 .. i - 1 : text[j] # LF
         IN  <<SubSeq(text, 1, k - 1)>> \o SplitLines(SubSeq(text, k + 1, Len(text)))

\* C25: what the proxy stream has emitted is, line for line, the lines it
\* has received, in their order and each once, every one ended by a line
\* feed; a stream that ended without a failure has emitted all the lines of
\* the source; after a failure of the upstream request the stream has ended
\* and the received lines are followed by one error event and nothing else.
C25_ProxyForwardsLines ==
    LET forwarded == SubSeq(upstream, 1, received)
        e == relay_pc.failure
    IN  /\ relay_pc.at \in {"idle", "open", "lines", "done"}
        /\ e = "none" =>
              /\ SplitLines(emitted) = forwarded
              /\ emitted # <<>> => emitted[Len(emitted)] = LF
              /\ relay_pc.at = "done" => received = Len(upstream)
        /\ e # "none" =>
              /\ relay_pc.at = "done"
              /\ emitted = SubSeq(emitted, 1, Len(emitted) - Len(ErrorEvent(e)))
                             \o ErrorEvent(e)
              /\ SplitLines(SubSeq(emitted, 1, Len(emitted) - Len(ErrorEvent(e)))) = forwarded

C25_Witness ==
    /\ relay_pc.at = "done"
    /\ relay_pc.failure = "ReadError"
    /\ received = 2
    /\ upstream[1] # upstream[2]
    /\ upstream[1] = <<>>

\* C26: a clone_repository call whose repo_url or branch contains a shell
\* metacharacter, a line feed or a carriage return raises ValueError and no
\* subprocess is run for it.
C26_HostileCloneRaisesFirst ==
    (/\ svc_call.op = "clone_repository"
     /\ svc_call.pc # "sanitize"
     /\ \E text \in {svc_call.repo_url, svc_call.branch} :
           \E i \in 1 .. Len(text) :
               text[i] \in {";", "&", "|", "$", "GRAVE", "(", ")", "{", "}", "[", "]",
                            "<", ">", "!", LF, CR})
        => /\ svc_raised.kind = "ValueError"
           /\ commands = <<>>

\* the texts `..`, `%2e%2e` and `%252e%252e` in every letter case
TraversalTexts ==
    {<<".", ".">>}
        \cup {<<x, y>> : x \in {"%2e", "%2E"}, y \in {"%2e", "%2E"}}
        \cup {<<x, y>> : x \in {"%252e", "%252E"}, y \in {"%252e", "%252E"}}

\* C27: for every path that contains `..`, `%2e%2e` or `%252e%252e` in any
\* letter case, the read_file call that applies the path sanitizer to it
\* ends with the sanitizer's ValueError and has run no command.
C27_TraversalRaises ==
    (/\ svc_call.op = "read_file"
     /\ svc_call.pc # "sanitize"
     /\ \E text \in TraversalTexts : Contains(svc_call.path, text))
        => /\ svc_raised = Raise("ValueError", "traversal")
           /\ commands = <<>>

C27_Witness ==
    /\ svc_call.op = "read_file"
    /\ svc_call.pc = "done"
    /\ svc_call.path = <<"a", "%252E", "%252e">>
    /\ svc_raised.kind = "ValueError"

\* C28: a path the path sanitizer accepts for a read_file call is returned
\* as a normalised absolute path that is the base directory or lies under it.
C28_AcceptedPathInsideBase ==
    (svc_call.op = "read_file" /\ svc_call.pc \in {"stat", "cat"})
        => LET full_path == _sanitize_path(svc_call.path, Workspace).message
           IN  /\ StartsWith(full_path, <<"/">>)
               /\ normpath(full_path) = full_path
               /\ full_path = Workspace \/ StartsWith(full_path, Workspace \o <<"/">>)

\* C29: a list_files or read_file call that has run a command was given a
\* path the path sanitizer accepts.
C29_FileCommandsSanitized ==
    (svc_call.op \in {"list_files", "read_file"} /\ commands # <<>>)
        => _sanitize_path(svc_call.path, Workspace).kind = "returned"

\* C30: an exec_command or clone_repository call whose command ran longer
\* than its timeout has raised an error of a kind of its own, not the plain
\* Exception that a failing clone raises too, and the error carries the
\* timeout of the call.
C30_TimeoutIsDistinctKind ==
    (svc_call.op \in {"exec_command", "clone_repository"} /\ svc_call.timed_out)
        => /\ svc_raised.kind # "Exception"
           /\ svc_raised.seconds = svc_call.timeout

\* C31: for a project that is not READY, every agent run and chat message
\* was answered with 400 and left no effect: no thread id generated or
\* stored, no chat session, no task on the task server, no request under way.
C31_NotReadyRejected ==
    get_project_by_id.status # "READY"
        => /\ response.op \in {"agent_run", "send_chat"} => response.code = 400
           /\ next_uuid = 1
           /\ refactor_thread_id = 0
           /\ chat_sessions = {}
           /\ tasks = EmptyDict
           /\ \A c \in RunIds : runs[c] = IdleRun

C31_Witness ==
    /\ get_project_by_id.status = "STOPPED"
    /\ response = [op |-> "send_chat", task_id |-> 0, code |-> 400]

\* C32: a task whose status is STOPPED had a stop request for its own
\* task_id accepted, also when tasks of one thread_id run at the same time
\* on the agent instance they share.
C32_StoppedOnlyByOwnStop ==
    \A t \in DOMAIN tasks : tasks[t].status = STOPPED => t \in stop_accepted

\* C33: a task for which a stop request has been accepted never has the
\* status SUCCESS.
C33_AcceptedStopNeverSuccess ==
    \A t \in stop_accepted : tasks[t].status # SUCCESS

\* C34: in every state a task whose status is SUCCESS, FAILED or STOPPED has
\* a finished_at, and a task whose status is FAILED has an error_message.
C34_TerminalHasFinishTime ==
    \A t \in DOMAIN tasks :
        /\ tasks[t].status \in {SUCCESS, FAILED, STOPPED} => tasks[t].finished_at # None
        /\ tasks[t].status = FAILED => tasks[t].error_message # None

\* the provision calls that have passed the status guard and not returned
PastGuard == {c \in CallIds : calls[c].op = "provision" /\ calls[c].pc # "idle"}

\* C35: at most one provision call on the project is past the status guard
\* at any time.
C35_OneProvisionPastGuard == Cardinality(PastGuard) <= 1

\* C36: a provision call that sets the project READY leaves it with no
\* last_error, so that a READY project never carries the error of an earlier
\* failed provision or failed stop.
C36_ReadyHasNoError ==
    [][\A c \in CallIds :
          (/\ At(c, "provision", "set_ready")
           /\ calls'[c].pc = "return"
           /\ ProjectId \in DOMAIN projects')
              => /\ projects'[ProjectId].status = "READY"
                 /\ projects'[ProjectId].last_error = None]_vars

\* C37: under fair scheduling of the executor, the stop handler and the
\* polling loop, every task reaches SUCCESS, FAILED or STOPPED and keeps that
\* status, and every stream opened on a task sends its status event and
\* closes.
C37_TasksFinishStreamsClose ==
    /\ \A t \in TaskIds :
          (t \in DOMAIN tasks) ~> (t \in DOMAIN tasks /\ tasks[t].status \in finished_statuses)
    /\ \A s \in StreamIds :
          (streams[s].pc # "closed")
              ~> (/\ streams[s].pc = "done"
                  /\ streams[s].last_event = "status"
                  /\ tasks[streams[s].task_id].status \in finished_statuses)
    /\ [][\A t \in DOMAIN tasks :
            tasks[t].status \in finished_statuses => tasks'[t].status = tasks[t].status]_vars

\* C37: the run was stopped, the executor has returned with the task
\* STOPPED, and a stream opened on the task has sent the status event and
\* closed.
C37_Witness ==
    /\ epc[1] = "done"
    /\ tasks[1].status = STOPPED
    /\ 1 \in stop_accepted
    /\ \E s \in StreamIds :
          /\ streams[s].pc = "done"
          /\ streams[s].task_id = 1
          /\ streams[s].nstatus = 1

Provisioning == Found(get_project_by_id) /\ get_project_by_id.status = "PROVISIONING"

\* C38: every provision call that has passed the guard completes, and a
\* project whose status is PROVISIONING eventually leaves that status.
C38_ProvisioningEnds ==
    /\ \A c \in CallIds : (calls[c].op = "provision") ~> (calls[c].op # "provision")
    /\ Provisioning ~> ~Provisioning

\* the structured event entries appended to the log of task t so far
NumEvents(t) ==
    Cardinality({i \in 1 .. Len(appended[t]) : appended[t][i].entry.kind = "event"})

\* C39: from the moment the stop flag of a RUNNING task is set, at most one
\* further structured event entry is appended to the log of the task.
C39_OneMoreEventAfterStop ==
    \A t \in TaskIds, k \in 0 .. EventsPerChunk :
        []((/\ t \in DOMAIN tasks
            /\ tasks[t].status = RUNNING
            /\ Get(stop_flags, t, FALSE)
            /\ NumEvents(t) = k)
              => [](NumEvents(t) <= k + 1))

\* C39: the stop handler has set the flag and logged the stop signal, the
\* callback then appended one more event, and the task ended STOPPED.
C39_Witness ==
    /\ tasks[1].status = STOPPED
    /\ epc[1] = "done"
    /\ \E i, j \in 1 .. Len(appended[1]) :
          /\ i < j
          /\ appended[1][i].entry.text = "stop signal received"
          /\ appended[1][j].entry.kind = "event"

====
